---- MODULE Spec2Model ----
(***************************************************************************)
(* Personal-Investment-Tracker: the SQLite store behind app.py, the Flask  *)
(* handlers that mutate it and the dashboard aggregation of index().        *)
(*                                                                          *)
(* One action per HTTP handler.  A handler runs to completion (Flask        *)
(* serves it synchronously); every query_db call it makes is part of the    *)
(* action.  Numbers are integers: the REAL columns hold the integer values  *)
(* of the bounded input sets, NaN is kept apart because sqlite3 binds it   *)
(* as NULL.                                                                 *)
(***************************************************************************)
EXTENDS Integers, Sequences, FiniteSets, TLC

\* ------------------------------------------------------------------ bounds
\* events (requests served, midnights passed) in one behaviour, and days it spans
MaxEvents == 6
MaxDay == 2

\* ------------------------------------------------------- SQL NULL, numbers
\* A nullable column holds Null or Some(v).
Null == <<>>
Some(v) == <<v>>
IsNull(x) == x = <<>>
Val(x) == x[1]
\* Python's `x or 0.0` on a nullable REAL
OrZero(x) == IF IsNull(x) THEN 0 ELSE Val(x)

\* The numbers a form or the gateway can carry
NumRange == -1 .. 5
\* request.form values for numeric fields: empty, unparseable, NaN, decimal
NumStrs == {"", "abc", "nan"} \cup {ToString(i) : i \in NumRange}

\* float(s): [kind |-> "err"] is ValueError, "nan" is float('nan')
Decimals == [s \in {ToString(i) : i \in NumRange} |->
                CHOOSE i \in NumRange : ToString(i) = s]
ParseFloat(s) ==
    IF s \in DOMAIN Decimals THEN [kind |-> "ok", v |-> Decimals[s]]
    ELSE IF s = "nan" THEN [kind |-> "nan", v |-> 0]
    ELSE [kind |-> "err", v |-> 0]

\* sqlite3 binds a Python float to a REAL parameter; NaN is bound as NULL
BindReal(p) == IF p.kind = "nan" THEN Null ELSE Some(p.v)

\* The quotient of two Python floats: the exact fraction n/d, d > 0, in lowest
\* terms (so that equal numbers are equal values); a whole number v is Q(v, 1)
Abs(x) == IF x < 0 THEN -x ELSE x
RECURSIVE GCD(_, _)
GCD(a, b) == IF b = 0 THEN a ELSE GCD(b, a % b)
Q(n, d) == LET g == GCD(Abs(n), d) IN [n |-> n \div g, d |-> d \div g]
\* the exception `/` raises on a zero divisor, as the value of the expression
ZeroDivisionError == [raised |-> "ZeroDivisionError"]
\* x / y, x * y, x + y, x - y and the comparisons on such numbers
TrueDiv(x, y) ==
    IF y.n = 0 THEN ZeroDivisionError
    ELSE IF y.n > 0 THEN Q(x.n * y.d, x.d * y.n)
    ELSE Q(-(x.n * y.d), x.d * (-y.n))
Mul(x, y) == Q(x.n * y.n, x.d * y.d)
Add(x, y) == Q(x.n * y.d + y.n * x.d, x.d * y.d)
Sub(x, y) == Q(x.n * y.d - y.n * x.d, x.d * y.d)
Less(x, y) == x.n * y.d < y.n * x.d
\* `(e) * 100` where e may have raised
Times100(x) == IF x = ZeroDivisionError THEN x ELSE Mul(x, Q(100, 1))

\* id values submitted as strings; INTEGER affinity turns '2' into 2
IdRange == 1 .. 9
IdStrs == [s \in {ToString(i) : i \in IdRange} |-> CHOOSE i \in IdRange : ToString(i) = s]
ParseInt(s) == IdStrs[s]

\* str.strip() and str.upper() on the strings the forms carry
Strip(s) ==
    CASE s = " " -> ""
      [] s = " al" -> "al"
      [] s = "ws " -> "ws"
      [] s = " y" -> "y"
      [] OTHER -> s
Upper(s) ==
    CASE s = "aapl" -> "AAPL"
      [] s = "msft" -> "MSFT"
      [] OTHER -> s

\* ------------------------------------------------------------- the store
VARIABLES
    users,              \* users table: user_id -> name
    platforms,          \* platforms table: platform_id -> name
    accounts,           \* accounts table: account_id -> row
    assets,             \* assets table: asset_id -> row
    app_settings,       \* app_settings table: setting_key -> setting_value
    portfolio_history,  \* portfolio_history table: set of rows
    sqlite_sequence,    \* AUTOINCREMENT: last id handed out per table
    today,              \* date.today(), as a day number
    events,             \* events so far: requests served and midnights passed
    last,               \* the response of the last request: handler and flash category
                        \* (kept in the behaviours of SpecT, blank in those of Spec)
    index_runs          \* the GET / requests served concurrently, statement by
                        \* statement (they advance in the behaviours of SpecC only)

vars == <<users, platforms, accounts, assets, app_settings, portfolio_history,
          sqlite_sequence, today, events, last, index_runs>>

\* a sqlite3.Error injected into one query of a handler: none, the duplicate
\* check SELECT, or the handler's INSERT/UPDATE/DELETE
Faults == {"none", "read", "write"}

\* flash(message, category) of the handler `op`, then the redirect or render
\* and what the message says
Unrecorded == [op |-> "-", flash |-> "-", msg |-> "-"]
Resp(op, category, message) ==
    IF last = Unrecorded THEN last ELSE [op |-> op, flash |-> category, msg |-> message]

\* the concurrent GET / requests and a request that has not started
Runs == {1, 2}
NotStarted ==
    [pc |-> "start", overall_portfolio_value |-> 0, today_str |-> 0,
     last_snapshot |-> FALSE, insert_order |-> 0, raised |-> FALSE]

\* one more event, within the budget; a request served in one piece leaves
\* the concurrent requests where they are
Event == events < MaxEvents /\ events' = events + 1 /\ UNCHANGED index_runs

\* init_db.main(): empty tables, the default goal row
Fresh ==
    /\ users = <<>>
    /\ platforms = <<>>
    /\ accounts = <<>>
    /\ assets = <<>>
    /\ app_settings = [k \in {"target_goal_value"} |-> "100000"]
    /\ portfolio_history = {}
    /\ sqlite_sequence = [users |-> 0, platforms |-> 0, accounts |-> 0, assets |-> 0]
    /\ today = 1
    /\ events = 0
    /\ index_runs = [r \in Runs |-> NotStarted]

Init == Fresh /\ last = Unrecorded
InitT == Fresh /\ last = [op |-> "init_db", flash |-> "none", msg |-> ""]

\* ------------------------------------------------- users and platforms
UserNames == {"", " ", "al", " al", "bo"}
PlatformNames == {"", " ", "ws", "ws ", "qt"}

\* users/platforms declared without UNIQUE on name
NameNotUnique(tbl, id, name) == TRUE

\* name TEXT NOT NULL UNIQUE: may `name` be written to row `id` of `tbl`
UniqueName(tbl, id, name) == \A o \in DOMAIN tbl : o # id => tbl[o] # name

\* INSERT INTO users/platforms (name): the table after the insert, or the
\* table itself when the statement raises (constraint or injected fault)
InsertName(tbl, id, name, fault) ==
    IF fault # "write" /\ UniqueName(tbl, id, name)
    THEN [i \in DOMAIN tbl \cup {id} |-> IF i = id THEN name ELSE tbl[i]]
    ELSE tbl

\* UPDATE users/platforms SET name = ? WHERE id = ?
UpdateName(tbl, id, name, fault) ==
    IF fault # "write" /\ UniqueName(tbl, id, name)
    THEN [tbl EXCEPT ![id] = name]
    ELSE tbl

\* SELECT ... WHERE name = ? [AND id != ?], one=True; None when the query fails
SelectByName(tbl, name, except, fault) ==
    IF fault = "read" THEN {}
    ELSE {i \in DOMAIN tbl : tbl[i] = name /\ i # except}

\* `if name:` after request.form.get('name', '').strip()
NameGiven(name) == name # ""

\* POST /users
manage_users(raw, fault) ==
    LET name == Strip(raw)
        id == sqlite_sequence.users + 1
        after == InsertName(users, id, name, fault)
    IN  /\ IF ~NameGiven(name)
           THEN /\ last' = Resp("manage_users", "warning", "empty")
                /\ UNCHANGED <<users, sqlite_sequence>>
           ELSE IF SelectByName(users, name, 0, fault) # {}
           THEN /\ last' = Resp("manage_users", "warning", "exists")
                /\ UNCHANGED <<users, sqlite_sequence>>
           ELSE IF after = users
           THEN /\ last' = Resp("manage_users", "error", "failed")
                /\ UNCHANGED <<users, sqlite_sequence>>
           ELSE /\ users' = after
                /\ sqlite_sequence' = [sqlite_sequence EXCEPT !.users = id]
                /\ last' = Resp("manage_users", "success", "added")
        /\ UNCHANGED <<platforms, accounts, assets, app_settings, portfolio_history, today>>

\* POST /user/<id>/edit
edit_user(user_id, raw, fault) ==
    LET new_name == Strip(raw)
        after == UpdateName(users, user_id, new_name, fault)
    IN  /\ IF user_id \notin DOMAIN users
           THEN /\ last' = Resp("edit_user", "error", "not found")
                /\ UNCHANGED users
           ELSE IF ~NameGiven(new_name)
           THEN /\ last' = Resp("edit_user", "warning", "empty")
                /\ UNCHANGED users
           ELSE IF SelectByName(users, new_name, user_id, fault) # {}
           THEN /\ last' = Resp("edit_user", "warning", "exists")
                /\ UNCHANGED users
           ELSE IF new_name = users[user_id]
           THEN /\ last' = Resp("edit_user", "info", "no changes")
                /\ UNCHANGED users
           ELSE IF after = users
           THEN /\ last' = Resp("edit_user", "error", "failed")
                /\ UNCHANGED users
           ELSE /\ users' = after
                /\ last' = Resp("edit_user", "success", "updated")
        /\ UNCHANGED <<platforms, accounts, assets, app_settings, portfolio_history,
                       sqlite_sequence, today>>

\* POST /platforms
manage_platforms(raw, fault) ==
    LET name == Strip(raw)
        id == sqlite_sequence.platforms + 1
        after == InsertName(platforms, id, name, fault)
    IN  /\ IF ~NameGiven(name)
           THEN /\ last' = Resp("manage_platforms", "warning", "empty")
                /\ UNCHANGED <<platforms, sqlite_sequence>>
           ELSE IF SelectByName(platforms, name, 0, fault) # {}
           THEN /\ last' = Resp("manage_platforms", "warning", "exists")
                /\ UNCHANGED <<platforms, sqlite_sequence>>
           ELSE IF after = platforms
           THEN /\ last' = Resp("manage_platforms", "error", "failed")
                /\ UNCHANGED <<platforms, sqlite_sequence>>
           ELSE /\ platforms' = after
                /\ sqlite_sequence' = [sqlite_sequence EXCEPT !.platforms = id]
                /\ last' = Resp("manage_platforms", "success", "added")
        /\ UNCHANGED <<users, accounts, assets, app_settings, portfolio_history, today>>

\* POST /platform/<id>/edit
edit_platform(platform_id, raw, fault) ==
    LET new_name == Strip(raw)
        after == UpdateName(platforms, platform_id, new_name, fault)
    IN  /\ IF platform_id \notin DOMAIN platforms
           THEN /\ last' = Resp("edit_platform", "error", "not found")
                /\ UNCHANGED platforms
           ELSE IF ~NameGiven(new_name)
           THEN /\ last' = Resp("edit_platform", "warning", "empty")
                /\ UNCHANGED platforms
           ELSE IF SelectByName(platforms, new_name, platform_id, fault) # {}
           THEN /\ last' = Resp("edit_platform", "warning", "exists")
                /\ UNCHANGED platforms
           ELSE IF new_name = platforms[platform_id]
           THEN /\ last' = Resp("edit_platform", "info", "no changes")
                /\ UNCHANGED platforms
           ELSE IF after = platforms
           THEN /\ last' = Resp("edit_platform", "error", "failed")
                /\ UNCHANGED platforms
           ELSE /\ platforms' = after
                /\ last' = Resp("edit_platform", "success", "updated")
        /\ UNCHANGED <<users, accounts, assets, app_settings, portfolio_history,
                       sqlite_sequence, today>>

\* --------------------------------------------------------------- accounts
\* get_db() opens the connection without PRAGMA foreign_keys = ON, so SQLite
\* neither checks the REFERENCES clauses nor runs ON DELETE CASCADE
ForeignKeysOn == FALSE

\* POSTed account forms (add and edit)
AccountForms ==
    { [user_id |-> "1", platform_id |-> "1", account_type |-> "TFSA",
       account_name |-> "x", cash_balance |-> "1"],
      [user_id |-> "1", platform_id |-> "1", account_type |-> "TFSA",
       account_name |-> " y", cash_balance |-> "-1"],
      [user_id |-> "2", platform_id |-> "2", account_type |-> "RRSP",
       account_name |-> "y", cash_balance |-> "nan"],
      [user_id |-> "2", platform_id |-> "1", account_type |-> "RRSP",
       account_name |-> "x", cash_balance |-> ""],
      [user_id |-> "", platform_id |-> "1", account_type |-> "TFSA",
       account_name |-> "x", cash_balance |-> "1"],
      [user_id |-> "1", platform_id |-> "1", account_type |-> "TFSA",
       account_name |-> " ", cash_balance |-> "1"],
      [user_id |-> "1", platform_id |-> "1", account_type |-> "TFSA",
       account_name |-> "y", cash_balance |-> "abc"] }

\* `if not user_id or not platform_id or not account_type or not account_name`
AccountFormComplete(f) ==
    /\ f.user_id # ""
    /\ f.platform_id # ""
    /\ Strip(f.account_type) # ""
    /\ Strip(f.account_name) # ""

\* float(cash_balance_str) if cash_balance_str else 0.0
ParseCash(raw) ==
    IF Strip(raw) = "" THEN [kind |-> "ok", v |-> 0] ELSE ParseFloat(Strip(raw))

\* the row an account form writes
AccountRow(f) ==
    [user_id |-> ParseInt(f.user_id), platform_id |-> ParseInt(f.platform_id),
     account_type |-> Strip(f.account_type), account_name |-> Strip(f.account_name),
     cash_balance |-> BindReal(ParseCash(f.cash_balance))]

\* the constraints of CREATE TABLE accounts on writing `row` as row `id`
AccountConstraints(id, row) ==
    /\ \A o \in DOMAIN accounts : o # id => accounts[o].account_name # row.account_name
    /\ ForeignKeysOn =>
          row.user_id \in DOMAIN users /\ row.platform_id \in DOMAIN platforms

\* SELECT account_id FROM accounts WHERE account_name = ? [AND account_id != ?]
SelectAccountByName(name, except, fault) ==
    IF fault = "read" THEN {}
    ELSE {i \in DOMAIN accounts : accounts[i].account_name = name /\ i # except}

\* POST /accounts
manage_accounts(f, fault) ==
    LET id == sqlite_sequence.accounts + 1
        row == AccountRow(f)
    IN  /\ IF ~AccountFormComplete(f)
           THEN /\ last' = Resp("manage_accounts", "error", "required")
                /\ UNCHANGED <<accounts, sqlite_sequence>>
           ELSE IF ParseCash(f.cash_balance).kind = "err"
           THEN /\ last' = Resp("manage_accounts", "error", "invalid")
                /\ UNCHANGED <<accounts, sqlite_sequence>>
           ELSE IF SelectAccountByName(row.account_name, 0, fault) # {}
           THEN /\ last' = Resp("manage_accounts", "warning", "exists")
                /\ UNCHANGED <<accounts, sqlite_sequence>>
           ELSE IF fault = "write" \/ ~AccountConstraints(id, row)
           THEN /\ last' = Resp("manage_accounts", "error", "failed")
                /\ UNCHANGED <<accounts, sqlite_sequence>>
           ELSE /\ accounts' = [i \in DOMAIN accounts \cup {id} |->
                                   IF i = id THEN row ELSE accounts[i]]
                /\ sqlite_sequence' = [sqlite_sequence EXCEPT !.accounts = id]
                /\ last' = Resp("manage_accounts", "success", "added")
        /\ UNCHANGED <<users, platforms, assets, app_settings, portfolio_history, today>>

\* the "No changes detected" comparison of edit_account
AccountUnchanged(account, f) ==
    LET c == ParseCash(f.cash_balance)
    IN  /\ ParseInt(f.user_id) = account.user_id
        /\ ParseInt(f.platform_id) = account.platform_id
        /\ Strip(f.account_type) = account.account_type
        /\ Strip(f.account_name) = account.account_name
        /\ c.kind = "ok" /\ ~IsNull(account.cash_balance)
        /\ c.v = Val(account.cash_balance)

\* POST /account/<id>/edit
edit_account(account_id, f, fault) ==
    LET row == AccountRow(f)
    IN  /\ IF account_id \notin DOMAIN accounts
           THEN /\ last' = Resp("edit_account", "error", "not found")
                /\ UNCHANGED accounts
           ELSE IF ~AccountFormComplete(f)
           THEN /\ last' = Resp("edit_account", "error", "required")
                /\ UNCHANGED accounts
           ELSE IF ParseCash(f.cash_balance).kind = "err"
           THEN /\ last' = Resp("edit_account", "error", "invalid")
                /\ UNCHANGED accounts
           ELSE IF SelectAccountByName(row.account_name, account_id, fault) # {}
           THEN /\ last' = Resp("edit_account", "warning", "exists")
                /\ UNCHANGED accounts
           ELSE IF AccountUnchanged(accounts[account_id], f)
           THEN /\ last' = Resp("edit_account", "info", "no changes")
                /\ UNCHANGED accounts
           ELSE IF fault = "write" \/ ~AccountConstraints(account_id, row)
           THEN /\ last' = Resp("edit_account", "error", "failed")
                /\ UNCHANGED accounts
           ELSE /\ accounts' = [accounts EXCEPT ![account_id] = row]
                /\ last' = Resp("edit_account", "success", "updated")
        /\ UNCHANGED <<users, platforms, assets, app_settings, portfolio_history,
                       sqlite_sequence, today>>

\* the rows left in `tbl` when the rows `gone` are deleted
Without(tbl, gone) == [i \in DOMAIN tbl \ gone |-> tbl[i]]

\* ON DELETE CASCADE from accounts to assets, run only under foreign_keys = ON
AssetsOfAccounts(accs) ==
    IF ForeignKeysOn THEN {a \in DOMAIN assets : assets[a].account_id \in accs} ELSE {}

\* ON DELETE CASCADE from platforms to accounts
AccountsOfPlatform(platform_id) ==
    IF ForeignKeysOn
    THEN {a \in DOMAIN accounts : accounts[a].platform_id = platform_id}
    ELSE {}

\* POST /account/<id>/delete
delete_account(account_id, fault) ==
    /\ IF account_id \notin DOMAIN accounts
       THEN /\ last' = Resp("delete_account", "error", "not found")
            /\ UNCHANGED <<accounts, assets>>
       ELSE IF fault = "write"
       THEN /\ last' = Resp("delete_account", "error", "failed")
            /\ UNCHANGED <<accounts, assets>>
       ELSE /\ accounts' = Without(accounts, {account_id})
            /\ assets' = Without(assets, AssetsOfAccounts({account_id}))
            /\ last' = Resp("delete_account", "success", "deleted")
    /\ UNCHANGED <<users, platforms, app_settings, portfolio_history, sqlite_sequence, today>>

\* POST /platform/<id>/delete
delete_platform(platform_id, fault) ==
    /\ IF platform_id \notin DOMAIN platforms
       THEN /\ last' = Resp("delete_platform", "error", "not found")
            /\ UNCHANGED <<platforms, accounts, assets>>
       ELSE IF fault = "write"
       THEN /\ last' = Resp("delete_platform", "error", "failed")
            /\ UNCHANGED <<platforms, accounts, assets>>
       ELSE /\ platforms' = Without(platforms, {platform_id})
            /\ accounts' = Without(accounts, AccountsOfPlatform(platform_id))
            /\ assets' = Without(assets, AssetsOfAccounts(AccountsOfPlatform(platform_id)))
            /\ last' = Resp("delete_platform", "success", "deleted")
    /\ UNCHANGED <<users, app_settings, portfolio_history, sqlite_sequence, today>>

\* ----------------------------------------------------------------- assets
\* what fetch_market_data returns: NoData (None, the call raised) or a quote
\* whose price fields are numbers or None (missing, or coerced from a
\* non-number); name "" stands for a missing shortName/longName
NoData == [available |-> FALSE]
Quote(cp, py, hi, lo, nm) ==
    [available |-> TRUE, current_price |-> cp, price_yesterday |-> py,
     fifty_two_week_high |-> hi, fifty_two_week_low |-> lo, name |-> nm]
Quotes ==
    { Quote(Some(2), Some(1), Some(4), Some(1), "Corp"),
      Quote(Some(1), Some(2), Some(2), Some(1), ""),
      Quote(Null, Some(2), Null, Some(1), "") }
MarketData == {NoData} \cup Quotes

\* POSTed asset forms (add_asset and edit_asset)
AssetForm(t, n, q, c, i) ==
    [ticker_symbol |-> t, asset_name |-> n, quantity |-> q, average_cost |-> c,
     total_invested |-> i]
AssetForms ==
    { AssetForm("aapl", "", "2", "1", "2"),
      AssetForm("MSFT", "", "1", "0", "0"),
      AssetForm("AAPL", "Mine", "1", "2", "2"),
      AssetForm("MSFT", "", "0", "1", "1"),
      AssetForm("MSFT", "", "1", "-1", "1"),
      AssetForm("AAPL", "", "1", "1", "-1"),
      AssetForm(" ", "", "1", "1", "1"),
      AssetForm("AAPL", "", "abc", "1", "1"),
      AssetForm("msft", "", "1", "1", ""),
      AssetForm("MSFT", "", "nan", "1", "1") }

\* `if not all([ticker_symbol, quantity_str, average_cost_str, total_invested_str])`
AssetFormComplete(f) ==
    /\ Upper(Strip(f.ticker_symbol)) # ""
    /\ Strip(f.quantity) # ""
    /\ Strip(f.average_cost) # ""
    /\ Strip(f.total_invested) # ""

\* the three float() calls raise no ValueError
AssetFormNumeric(f) ==
    /\ ParseFloat(Strip(f.quantity)).kind # "err"
    /\ ParseFloat(Strip(f.average_cost)).kind # "err"
    /\ ParseFloat(Strip(f.total_invested)).kind # "err"

\* Python comparisons with a float that may be NaN (every comparison False)
Lt(p, n) == p.kind = "ok" /\ p.v < n
Le(p, n) == p.kind = "ok" /\ p.v <= n

\* the handlers without their `if quantity <= 0 or ...` check
AssetFormNoBounds(f) == TRUE

\* `if quantity <= 0 or average_cost < 0 or total_invested < 0` does not fire
AssetFormInBounds(f) ==
    ~ \/ Le(ParseFloat(Strip(f.quantity)), 0)
      \/ Lt(ParseFloat(Strip(f.average_cost)), 0)
      \/ Lt(ParseFloat(Strip(f.total_invested)), 0)

\* quantity, average_cost, total_invested REAL NOT NULL: NaN is bound as NULL
AssetFormNotNull(f) ==
    /\ ParseFloat(Strip(f.quantity)).kind = "ok"
    /\ ParseFloat(Strip(f.average_cost)).kind = "ok"
    /\ ParseFloat(Strip(f.total_invested)).kind = "ok"

\* assets declared without UNIQUE(account_id, ticker_symbol)
TickerNotUnique(id, account_id, ticker) == TRUE

\* UNIQUE(account_id, ticker_symbol) on writing (account, ticker) as row `id`
UniqueTicker(id, account_id, ticker) ==
    \A o \in DOMAIN assets :
        o # id => ~(assets[o].account_id = account_id /\ assets[o].ticker_symbol = ticker)

\* the constraints of CREATE TABLE assets
AssetConstraints(id, account_id, f) ==
    /\ AssetFormNotNull(f)
    /\ UniqueTicker(id, account_id, Upper(Strip(f.ticker_symbol)))
    /\ ForeignKeysOn => account_id \in DOMAIN accounts

\* SELECT asset_id FROM assets WHERE account_id = ? AND ticker_symbol = ? [AND asset_id != ?]
SelectAssetByTicker(account_id, ticker, except, fault) ==
    IF fault = "read" THEN {}
    ELSE {i \in DOMAIN assets : /\ assets[i].account_id = account_id
                                /\ assets[i].ticker_symbol = ticker
                                /\ i # except}

\* accounts JOIN users JOIN platforms WHERE account_id = ?
AccountJoined(account_id) ==
    /\ account_id \in DOMAIN accounts
    /\ accounts[account_id].user_id \in DOMAIN users
    /\ accounts[account_id].platform_id \in DOMAIN platforms

\* the price columns a quote writes (all NULL without market data)
PriceColumns(md) ==
    IF md.available
    THEN [current_price |-> md.current_price, price_yesterday |-> md.price_yesterday,
          fifty_two_week_high |-> md.fifty_two_week_high,
          fifty_two_week_low |-> md.fifty_two_week_low]
    ELSE [current_price |-> Null, price_yesterday |-> Null,
          fifty_two_week_high |-> Null, fifty_two_week_low |-> Null]

\* the row add_asset inserts
NewAssetRow(account_id, f, md) ==
    LET pc == PriceColumns(md)
        manual == Strip(f.asset_name)
    IN  [account_id |-> account_id,
         ticker_symbol |-> Upper(Strip(f.ticker_symbol)),
         name |-> IF manual = "" /\ md.available /\ md.name # "" THEN md.name ELSE manual,
         quantity |-> ParseFloat(Strip(f.quantity)).v,
         average_cost |-> ParseFloat(Strip(f.average_cost)).v,
         total_invested |-> ParseFloat(Strip(f.total_invested)).v,
         current_price |-> pc.current_price,
         price_yesterday |-> pc.price_yesterday,
         fifty_two_week_high |-> pc.fifty_two_week_high,
         fifty_two_week_low |-> pc.fifty_two_week_low]

\* POST /account/<id>/assets, action=add_asset
add_asset(account_id, f, md, fault) ==
    LET id == sqlite_sequence.assets + 1
        ticker == Upper(Strip(f.ticker_symbol))
    IN  /\ IF ~AccountJoined(account_id)
           THEN /\ last' = Resp("add_asset", "error", "not found")
                /\ UNCHANGED <<assets, sqlite_sequence>>
           ELSE IF ~AssetFormComplete(f)
           THEN /\ last' = Resp("add_asset", "error", "required")
                /\ UNCHANGED <<assets, sqlite_sequence>>
           ELSE IF ~AssetFormNumeric(f)
           THEN /\ last' = Resp("add_asset", "error", "invalid")
                /\ UNCHANGED <<assets, sqlite_sequence>>
           ELSE IF ~AssetFormInBounds(f)
           THEN /\ last' = Resp("add_asset", "warning", "bounds")
                /\ UNCHANGED <<assets, sqlite_sequence>>
           ELSE IF SelectAssetByTicker(account_id, ticker, 0, fault) # {}
           THEN /\ last' = Resp("add_asset", "warning", "exists")
                /\ UNCHANGED <<assets, sqlite_sequence>>
           ELSE IF fault = "write" \/ ~AssetConstraints(id, account_id, f)
           THEN /\ last' = Resp("add_asset", "error", "failed")
                /\ UNCHANGED <<assets, sqlite_sequence>>
           ELSE /\ assets' = [i \in DOMAIN assets \cup {id} |->
                                 IF i = id THEN NewAssetRow(account_id, f, md)
                                 ELSE assets[i]]
                /\ sqlite_sequence' = [sqlite_sequence EXCEPT !.assets = id]
                /\ last' = Resp("add_asset", "success", "added")
        /\ UNCHANGED <<users, platforms, accounts, app_settings, portfolio_history, today>>

\* assets JOIN accounts WHERE asset_id = ?
AssetJoined(asset_id) ==
    /\ asset_id \in DOMAIN assets
    /\ assets[asset_id].account_id \in DOMAIN accounts

\* the "No changes detected" comparison of edit_asset
AssetUnchanged(asset, f) ==
    LET q == ParseFloat(Strip(f.quantity))
        c == ParseFloat(Strip(f.average_cost))
        i == ParseFloat(Strip(f.total_invested))
    IN  /\ Upper(Strip(f.ticker_symbol)) = asset.ticker_symbol
        /\ Strip(f.asset_name) = asset.name
        /\ q.kind = "ok" /\ q.v = asset.quantity
        /\ c.kind = "ok" /\ c.v = asset.average_cost
        /\ i.kind = "ok" /\ i.v = asset.total_invested

\* UPDATE assets SET ticker_symbol, name, quantity, average_cost, total_invested
ManualColumns(asset, f) ==
    [asset EXCEPT
        !.ticker_symbol = Upper(Strip(f.ticker_symbol)),
        !.name = IF Strip(f.asset_name) # "" THEN Strip(f.asset_name) ELSE asset.name,
        !.quantity = ParseFloat(Strip(f.quantity)).v,
        !.average_cost = ParseFloat(Strip(f.average_cost)).v,
        !.total_invested = ParseFloat(Strip(f.total_invested)).v]

\* the second UPDATE of edit_asset clearing current_price alone
ClearedCurrentPrice(asset) == [asset EXCEPT !.current_price = Null]

\* UPDATE assets SET current_price = NULL, price_yesterday = NULL, ... = NULL
ClearedPrices(asset) ==
    [asset EXCEPT !.current_price = Null, !.price_yesterday = Null,
                  !.fifty_two_week_high = Null, !.fifty_two_week_low = Null]

\* edit_asset also injects a fault into its second UPDATE
EditAssetFaults == Faults \cup {"write2"}

\* POST /asset/<id>/edit
edit_asset(asset_id, f, fault) ==
    LET asset == assets[asset_id]
        new_ticker == Upper(Strip(f.ticker_symbol))
        ticker_changed == new_ticker # asset.ticker_symbol
        updated == ManualColumns(asset, f)
    IN  /\ IF ~AssetJoined(asset_id)
           THEN /\ last' = Resp("edit_asset", "error", "not found")
                /\ UNCHANGED assets
           ELSE IF ~AssetFormComplete(f)
           THEN /\ last' = Resp("edit_asset", "error", "required")
                /\ UNCHANGED assets
           ELSE IF ~AssetFormNumeric(f)
           THEN /\ last' = Resp("edit_asset", "error", "invalid")
                /\ UNCHANGED assets
           ELSE IF ~AssetFormInBounds(f)
           THEN /\ last' = Resp("edit_asset", "warning", "bounds")
                /\ UNCHANGED assets
           ELSE IF /\ ticker_changed
                   /\ SelectAssetByTicker(asset.account_id, new_ticker, asset_id, fault) # {}
           THEN /\ last' = Resp("edit_asset", "warning", "exists")
                /\ UNCHANGED assets
           ELSE IF AssetUnchanged(asset, f)
           THEN /\ last' = Resp("edit_asset", "info", "no changes")
                /\ UNCHANGED assets
           ELSE IF fault = "write" \/ ~AssetConstraints(asset_id, asset.account_id, f)
           THEN /\ last' = Resp("edit_asset", "error", "failed")
                /\ UNCHANGED assets
           ELSE /\ assets' = [assets EXCEPT ![asset_id] =
                                 IF ticker_changed /\ fault # "write2"
                                 THEN ClearedPrices(updated) ELSE updated]
                /\ last' = Resp("edit_asset", "success", "updated")
        /\ UNCHANGED <<users, platforms, accounts, app_settings, portfolio_history,
                       sqlite_sequence, today>>

\* POST /asset/<id>/delete
delete_asset(asset_id, fault) ==
    /\ IF asset_id \notin DOMAIN assets
       THEN /\ last' = Resp("delete_asset", "error", "not found")
            /\ UNCHANGED assets
       ELSE IF fault = "write"
       THEN /\ last' = Resp("delete_asset", "error", "failed")
            /\ UNCHANGED assets
       ELSE /\ assets' = Without(assets, {asset_id})
            /\ last' = Resp("delete_asset", "success", "deleted")
    /\ UNCHANGED <<users, platforms, accounts, app_settings, portfolio_history,
                   sqlite_sequence, today>>

\* UPDATE assets SET current_price = ?, price_yesterday = ?, fifty_two_week_high = ?,
\* fifty_two_week_low = ? with the values of the quote
WithPrices(asset, md) ==
    [asset EXCEPT !.current_price = md.current_price,
                  !.price_yesterday = md.price_yesterday,
                  !.fifty_two_week_high = md.fifty_two_week_high,
                  !.fifty_two_week_low = md.fifty_two_week_low]

\* the name a refresh leaves on the asset: the quote's, when the stored one is empty
RefreshedName(asset, md) ==
    IF md.name # "" /\ asset.name = "" THEN md.name ELSE asset.name

\* POST /asset/<id>/refresh
refresh_asset_data(asset_id, md, fault) ==
    /\ IF asset_id \notin DOMAIN assets
       THEN /\ last' = Resp("refresh_asset_data", "error", "not found")
            /\ UNCHANGED assets
       ELSE IF ~md.available
       THEN /\ last' = Resp("refresh_asset_data", "warning", "no data")
            /\ UNCHANGED assets
       ELSE IF fault = "write"
       THEN /\ last' = Resp("refresh_asset_data", "error", "failed")
            /\ UNCHANGED assets
       ELSE /\ assets' = [assets EXCEPT ![asset_id] =
                 [WithPrices(assets[asset_id], md) EXCEPT
                     !.name = RefreshedName(assets[asset_id], md)]]
            /\ last' = Resp("refresh_asset_data", "success", "refreshed")
    /\ UNCHANGED <<users, platforms, accounts, app_settings, portfolio_history,
                   sqlite_sequence, today>>

\* SELECT DISTINCT ticker_symbol FROM assets
UniqueTickers == {assets[a].ticker_symbol : a \in DOMAIN assets}

\* what fetch_live_exchange_rate returns, as str(rate); "" is None
ExchangeRates == {"", "1.4"}

\* one ticker of the refresh-all loop is updated: data came and the UPDATE ran
TickerUpdated(t, mdOf, failed) == mdOf[t].available /\ t \notin failed

\* The loop asks for the names of a ticker's assets once its quote is there;
\* when that SELECT fails query_db returns None and the dict comprehension over
\* it raises TypeError, which nothing catches. `stop` is Null when no such
\* SELECT fails, else Some(the tickers the loop was through with by then); the
\* loop runs over a set, in no particular order.
Stops(mdOf) ==
    {Null} \cup {Some(S) : S \in {R \in SUBSET UniqueTickers :
                                     \E t \in UniqueTickers \ R : mdOf[t].available}}
Reached(t, stop) == IsNull(stop) \/ t \in Val(stop)
\* failed_tickers as flashed after the loop
failed_tickers(mdOf, failed) == {t \in UniqueTickers : ~TickerUpdated(t, mdOf, failed)}

\* POST /assets/refresh_all: mdOf is the gateway's answer per ticker, `failed`
\* the tickers whose price UPDATE raises, rate the exchange rate fetched
refresh_all_assets_data(mdOf, failed, rate, stop) ==
    /\ IF UniqueTickers = {}
       THEN /\ last' = Resp("refresh_all_assets_data", "info", "no assets")
            /\ UNCHANGED <<assets, app_settings>>
       ELSE /\ assets' = [a \in DOMAIN assets |->
                 LET t == assets[a].ticker_symbol
                 IN  IF Reached(t, stop) /\ TickerUpdated(t, mdOf, failed)
                     THEN [WithPrices(assets[a], mdOf[t]) EXCEPT
                              !.name = RefreshedName(assets[a], mdOf[t])]
                     ELSE assets[a]]
            /\ app_settings' =
                 IF rate # "" /\ IsNull(stop)
                 THEN [k \in DOMAIN app_settings \cup {"usd_to_cad_exchange_rate"} |->
                          IF k = "usd_to_cad_exchange_rate" THEN rate ELSE app_settings[k]]
                 ELSE app_settings
            /\ last' = IF ~IsNull(stop)
                       THEN Resp("refresh_all_assets_data", "none", "TypeError")
                       ELSE IF failed_tickers(mdOf, failed) # {}
                       THEN Resp("refresh_all_assets_data", "error", "failed tickers")
                       ELSE Resp("refresh_all_assets_data", "success", "updated")
    /\ UNCHANGED <<users, platforms, accounts, portfolio_history, sqlite_sequence, today>>

\* ------------------------------------------------- dashboard aggregation
\* the sum of f[x] over the domain of the function f (the += loops of index)
RECURSIVE SumOf(_)
SumOf(f) ==
    IF DOMAIN f = {} THEN 0
    ELSE LET x == CHOOSE y \in DOMAIN f : TRUE
         IN  f[x] + SumOf([y \in DOMAIN f \ {x} |-> f[y]])

\* all_assets_raw selected without its JOINs
AllAssetsUnjoined == DOMAIN assets

\* all_assets_raw: assets JOIN accounts JOIN users JOIN platforms
AllAssetsRaw == {a \in DOMAIN assets : AccountJoined(assets[a].account_id)}

\* asset_detail: the per-asset derivation of index
AssetDetail(a) ==
    LET row == assets[a]
        current_value ==
            IF IsNull(row.current_price) THEN 0 ELSE row.quantity * Val(row.current_price)
    IN  [account_id |-> row.account_id,
         total_invested |-> row.total_invested,
         quantity |-> row.quantity,
         current_value |-> current_value,
         profit_loss_dollars |-> current_value - row.total_invested]

global_total_invested_assets ==
    SumOf([a \in AllAssetsRaw |-> AssetDetail(a).total_invested])
global_current_value_of_assets ==
    SumOf([a \in AllAssetsRaw |-> AssetDetail(a).current_value])

\* SELECT SUM(cash_balance) FROM accounts; 0.0 is kept when the sum is NULL
global_total_cash ==
    SumOf([a \in {x \in DOMAIN accounts : ~IsNull(accounts[x].cash_balance)} |->
              Val(accounts[a].cash_balance)])

overall_portfolio_value == global_current_value_of_assets + global_total_cash

\* SELECT DISTINCT p.platform_id ... FROM platforms p JOIN accounts acc WHERE acc.user_id = ?
user_platforms(u) ==
    {p \in DOMAIN platforms :
        \E a \in DOMAIN accounts :
            accounts[a].platform_id = p /\ accounts[a].user_id = u}

\* SELECT ... FROM accounts WHERE user_id = ? AND platform_id = ?
accounts_on_platform(u, p) ==
    {a \in DOMAIN accounts : accounts[a].user_id = u /\ accounts[a].platform_id = p}

\* [a for a in all_assets_detailed if a['account_id'] == account_row['account_id']]
assets_in_account(acc) == {a \in AllAssetsRaw : AssetDetail(a).account_id = acc}

account_summary_data(acc) ==
    LET ti == SumOf([a \in assets_in_account(acc) |-> AssetDetail(a).total_invested])
        cv == SumOf([a \in assets_in_account(acc) |-> AssetDetail(a).current_value])
    IN  [cash_balance |-> OrZero(accounts[acc].cash_balance),
         total_invested |-> ti,
         current_value_of_assets |-> cv,
         profit_loss_amount |-> cv - ti]

platform_summary_data(u, p) ==
    LET accs == accounts_on_platform(u, p)
        ti == SumOf([a \in accs |-> account_summary_data(a).total_invested])
        cv == SumOf([a \in accs |-> account_summary_data(a).current_value_of_assets])
    IN  [total_invested |-> ti,
         current_value_of_assets |-> cv,
         total_cash |-> SumOf([a \in accs |-> account_summary_data(a).cash_balance]),
         profit_loss_amount |-> cv - ti]

user_summary_data(u) ==
    LET ps == user_platforms(u)
        ti == SumOf([p \in ps |-> platform_summary_data(u, p).total_invested])
        cv == SumOf([p \in ps |-> platform_summary_data(u, p).current_value_of_assets])
    IN  [total_invested |-> ti,
         current_value_of_assets |-> cv,
         total_cash |-> SumOf([p \in ps |-> platform_summary_data(u, p).total_cash]),
         profit_loss_amount |-> cv - ti]

\* breakdown_data: one user summary per row of users
breakdown_data == [u \in DOMAIN users |-> user_summary_data(u)]

\* all_accounts_performance_data: one entry per account reached by the nested loops
all_accounts_performance_data ==
    [acc \in {a \in DOMAIN accounts :
                 \E u \in DOMAIN users :
                     \E p \in user_platforms(u) : a \in accounts_on_platform(u, p)} |->
        [total_invested |-> account_summary_data(acc).total_invested,
         current_value_of_assets |-> account_summary_data(acc).current_value_of_assets,
         total_value |-> account_summary_data(acc).current_value_of_assets
                           + account_summary_data(acc).cash_balance,
         profit_loss_dollars |-> account_summary_data(acc).profit_loss_amount]]

\* `(amount / total_invested) * 100` taken without looking at total_invested
profit_loss_percent_unguarded(amount, total_invested) ==
    Times100(TrueDiv(Q(amount, 1), Q(total_invested, 1)))

\* `(amount / total_invested) * 100 if total_invested > 0 else 0.0`, the
\* expression index uses at the asset, account, platform, user and global level
profit_loss_percent(amount, total_invested) ==
    IF total_invested > 0
    THEN Times100(TrueDiv(Q(amount, 1), Q(total_invested, 1)))
    ELSE Q(0, 1)

asset_profit_loss_percent(a) ==
    profit_loss_percent(AssetDetail(a).profit_loss_dollars, AssetDetail(a).total_invested)
account_profit_loss_percent(acc) ==
    profit_loss_percent(account_summary_data(acc).profit_loss_amount,
                        account_summary_data(acc).total_invested)
platform_profit_loss_percent(u, p) ==
    profit_loss_percent(platform_summary_data(u, p).profit_loss_amount,
                        platform_summary_data(u, p).total_invested)
user_profit_loss_percent(u) ==
    profit_loss_percent(user_summary_data(u).profit_loss_amount,
                        user_summary_data(u).total_invested)
global_profit_loss_amount == global_current_value_of_assets - global_total_invested_assets
global_profit_loss_percent ==
    profit_loss_percent(global_profit_loss_amount, global_total_invested_assets)

\* `((x - base) / base) * 100`
PercentChange(x, base) == Times100(TrueDiv(Sub(Q(x, 1), Q(base, 1)), Q(base, 1)))
\* asset_detail['day_change_percent']: 0.0 unless both prices are stored and
\* yesterday's is positive (index and the account's asset view alike)
day_change_percent(a) ==
    IF /\ ~IsNull(assets[a].current_price)
       /\ ~IsNull(assets[a].price_yesterday)
       /\ Val(assets[a].price_yesterday) > 0
    THEN Some(PercentChange(Val(assets[a].current_price), Val(assets[a].price_yesterday)))
    ELSE Some(Q(0, 1))
\* asset_detail['percent_to_52_week_high']: None unless the price and a
\* positive 52-week high are stored
percent_to_52_week_high(a) ==
    IF /\ ~IsNull(assets[a].current_price)
       /\ ~IsNull(assets[a].fifty_two_week_high)
       /\ Val(assets[a].fifty_two_week_high) > 0
    THEN Some(PercentChange(Val(assets[a].current_price), Val(assets[a].fifty_two_week_high)))
    ELSE Null

\* assets_db_rows of the account's asset view: SELECT ... FROM assets WHERE account_id = ?
assets_db_rows(account_id) == {a \in DOMAIN assets : assets[a].account_id = account_id}

\* asset_item with day_change_percent left None when it cannot be computed
asset_item_day_change_absent(a) ==
    LET row == assets[a]
        current_value ==
            IF ~IsNull(row.current_price) THEN row.quantity * Val(row.current_price) ELSE 0
        profit_loss_dollars == current_value - row.total_invested
    IN  [current_value |-> current_value,
         profit_loss_dollars |-> profit_loss_dollars,
         profit_loss_percent |->
            IF row.total_invested > 0
            THEN Times100(TrueDiv(Q(profit_loss_dollars, 1), Q(row.total_invested, 1)))
            ELSE Q(0, 1),
         day_change_percent |->
            IF /\ ~IsNull(row.current_price) /\ ~IsNull(row.price_yesterday)
               /\ Val(row.price_yesterday) > 0
            THEN Some(Times100(TrueDiv(Sub(Q(Val(row.current_price), 1),
                                           Q(Val(row.price_yesterday), 1)),
                                       Q(Val(row.price_yesterday), 1))))
            ELSE Null,
         percent_to_52_week_high |->
            IF /\ ~IsNull(row.current_price) /\ ~IsNull(row.fifty_two_week_high)
               /\ Val(row.fifty_two_week_high) > 0
            THEN Some(Times100(TrueDiv(Sub(Q(Val(row.current_price), 1),
                                           Q(Val(row.fifty_two_week_high), 1)),
                                       Q(Val(row.fifty_two_week_high), 1))))
            ELSE Null]

\* asset_item: the per-asset derivation of the account's asset view
\* (manage_account_assets), written out a second time in the source
asset_item(a) ==
    LET row == assets[a]
        current_value ==
            IF ~IsNull(row.current_price) THEN row.quantity * Val(row.current_price) ELSE 0
        profit_loss_dollars == current_value - row.total_invested
    IN  [current_value |-> current_value,
         profit_loss_dollars |-> profit_loss_dollars,
         profit_loss_percent |->
            IF row.total_invested > 0
            THEN Times100(TrueDiv(Q(profit_loss_dollars, 1), Q(row.total_invested, 1)))
            ELSE Q(0, 1),
         day_change_percent |->
            IF /\ ~IsNull(row.current_price) /\ ~IsNull(row.price_yesterday)
               /\ Val(row.price_yesterday) > 0
            THEN Some(Times100(TrueDiv(Sub(Q(Val(row.current_price), 1),
                                           Q(Val(row.price_yesterday), 1)),
                                       Q(Val(row.price_yesterday), 1))))
            ELSE Some(Q(0, 1)),
         percent_to_52_week_high |->
            IF /\ ~IsNull(row.current_price) /\ ~IsNull(row.fifty_two_week_high)
               /\ Val(row.fifty_two_week_high) > 0
            THEN Some(Times100(TrueDiv(Sub(Q(Val(row.current_price), 1),
                                           Q(Val(row.fifty_two_week_high), 1)),
                                       Q(Val(row.fifty_two_week_high), 1))))
            ELSE Null]

\* the position of the stored names in SQLite's BINARY collation (ORDER BY name)
NameRank(s) ==
    CASE s = "al" -> 1
      [] s = "bo" -> 2
      [] s = "qt" -> 3
      [] s = "ws" -> 4
      [] s = "x" -> 5
      [] s = "y" -> 6
      [] OTHER -> 0
\* the ids of S as the rows come back: ascending rank, then ascending rowid
RECURSIVE Ordered(_, _)
Ordered(S, rank) ==
    IF S = {} THEN <<>>
    ELSE LET m == CHOOSE x \in S :
                     \A y \in S : rank[x] < rank[y] \/ (rank[x] = rank[y] /\ x <= y)
         IN  <<m>> \o Ordered(S \ {m}, rank)
RECURSIVE Concat(_)
Concat(seqs) == IF seqs = <<>> THEN <<>> ELSE Head(seqs) \o Concat(Tail(seqs))
Filter(seq, keep) == SelectSeq(seq, LAMBDA x : x \in keep)

\* all_assets_detailed: the joined assets in the order of the query, which has
\* no ORDER BY and walks assets by rowid
all_assets_detailed == Ordered(AllAssetsRaw, [a \in AllAssetsRaw |-> 0])

\* the accounts in the order the nested loops append them to
\* all_accounts_performance_data: users ORDER BY name, their platforms ORDER
\* BY p.name, the accounts of the pair ORDER BY account_name
accounts_performance_order ==
    LET us == Ordered(DOMAIN users, [u \in DOMAIN users |-> NameRank(users[u])])
        ps(u) == Ordered(user_platforms(u),
                         [p \in user_platforms(u) |-> NameRank(platforms[p])])
        as(u, p) == Ordered(accounts_on_platform(u, p),
                            [c \in accounts_on_platform(u, p) |->
                                NameRank(accounts[c].account_name)])
    IN  Concat([i \in 1 .. Len(us) |->
                  Concat([j \in 1 .. Len(ps(us[i])) |-> as(us[i], ps(us[i])[j])])])

\* a descending sort that puts an element before the earlier elements of the
\* same key
RECURSIVE SortedTiesReversed(_, _)
SortedTiesReversed(seq, key) ==
    IF seq = <<>> THEN <<>>
    ELSE LET init == SortedTiesReversed(SubSeq(seq, 1, Len(seq) - 1), key)
             x == seq[Len(seq)]
             k == Cardinality({i \in 1 .. Len(init) : Less(key[x], key[init[i]])})
         IN  SubSeq(init, 1, k) \o <<x>> \o SubSeq(init, k + 1, Len(init))

\* sorted(seq, key=..., reverse=True): descending by key, and stable, so an
\* element goes behind the earlier elements whose key is not smaller
RECURSIVE Sorted(_, _)
Sorted(seq, key) ==
    IF seq = <<>> THEN <<>>
    ELSE LET init == Sorted(SubSeq(seq, 1, Len(seq) - 1), key)
             x == seq[Len(seq)]
             k == Cardinality({i \in 1 .. Len(init) : ~Less(key[init[i]], key[x])})
         IN  SubSeq(init, 1, k) \o <<x>> \o SubSeq(init, k + 1, Len(init))

\* [a for a in all_assets_detailed if a.get('profit_loss_percent') is not None
\*  and a.get('total_invested') > 0]; profit_loss_percent is always set
valid_assets_for_ranking ==
    Filter(all_assets_detailed, {a \in AllAssetsRaw : AssetDetail(a).total_invested > 0})
all_assets_ranked ==
    Sorted(valid_assets_for_ranking,
           [a \in AllAssetsRaw |-> asset_profit_loss_percent(a)])
\* sorted_assets[0] and sorted_assets[-1], None when nothing is ranked
best_performing_asset ==
    IF all_assets_ranked = <<>> THEN Null ELSE Some(all_assets_ranked[1])
worst_performing_asset ==
    IF all_assets_ranked = <<>> THEN Null ELSE Some(all_assets_ranked[Len(all_assets_ranked)])

\* ranked_accounts: the entries of all_accounts_performance_data with
\* total_invested > 0, sorted the same way
all_accounts_ranked_by_performance ==
    Sorted(Filter(accounts_performance_order,
                  {c \in DOMAIN all_accounts_performance_data :
                      all_accounts_performance_data[c].total_invested > 0}),
           [c \in DOMAIN all_accounts_performance_data |-> account_profit_loss_percent(c)])

\* a chart dataset that keeps its header row and the groups of no value
ChartUnfiltered(header, groups, label, value) ==
    <<header>> \o [i \in 1 .. Len(groups) |-> <<label[groups[i]], value[groups[i]]>>]

\* a chart dataset: the header row, then [label, value] for each group, in
\* order, whose value is > 0; `data if len(data) > 1 else []`
Chart(header, groups, label, value) ==
    LET shown == SelectSeq(groups, LAMBDA g : value[g] > 0)
        data == <<header>> \o [i \in 1 .. Len(shown) |-> <<label[shown[i]], value[shown[i]]>>]
    IN  IF Len(data) > 1 THEN data ELSE <<>>

\* account_type_values: current_value_of_assets + cash_balance of the
\* accounts of the breakdown, summed per account_type; a dict, so the types
\* come in the order the loops first meet them
account_types ==
    LET order == accounts_performance_order
        first(i) == \A j \in 1 .. i - 1 :
                       accounts[order[j]].account_type # accounts[order[i]].account_type
        firsts == SelectSeq([i \in 1 .. Len(order) |-> i], first)
    IN  [i \in 1 .. Len(firsts) |-> accounts[order[firsts[i]]].account_type]
account_type_values ==
    [t \in {accounts[c].account_type : c \in DOMAIN all_accounts_performance_data} |->
        SumOf([c \in {x \in DOMAIN all_accounts_performance_data :
                         accounts[x].account_type = t} |->
                  account_summary_data(c).current_value_of_assets
                     + account_summary_data(c).cash_balance])]
account_type_allocation_data_for_chart ==
    Chart(<<"Account Type", "Total Value">>, account_types,
          [t \in DOMAIN account_type_values |-> t], account_type_values)

\* one row per user summary: current_value_of_assets + total_cash
user_allocation_data_for_chart ==
    Chart(<<"User", "Total Portfolio Value">>,
          Ordered(DOMAIN users, [u \in DOMAIN users |-> NameRank(users[u])]),
          [u \in DOMAIN users |-> users[u]],
          [u \in DOMAIN users |->
              breakdown_data[u].current_value_of_assets + breakdown_data[u].total_cash])

\* display_name: "{user} - {account} ({platform})", kept as its three parts
display_name(c) ==
    <<users[accounts[c].user_id], accounts[c].account_name, platforms[accounts[c].platform_id]>>
\* one row per entry of all_accounts_performance_data: its total_value
individual_account_allocation_data_for_chart ==
    Chart(<<"Account", "Total Value">>, accounts_performance_order,
          [c \in DOMAIN all_accounts_performance_data |-> display_name(c)],
          [c \in DOMAIN all_accounts_performance_data |->
              all_accounts_performance_data[c].total_value])

\* ------------------------------------------------------------ simulations
\* float('nan') as a value: every product, difference and quotient it enters
NaN == [nan |-> TRUE]
\* int(s): ValueError unless s is a decimal integer
ParseIntOrError(s) ==
    IF s \in DOMAIN IdStrs THEN [kind |-> "ok", v |-> IdStrs[s]] ELSE [kind |-> "err", v |-> 0]
\* what a simulation hands to the template: the flash and the results dict
Outcome(category, message, result) ==
    [flash |-> category, msg |-> message, result |-> result]

\* original_cost: total_invested, else quantity * average_cost, else 0
\* (the columns as nullable values)
OriginalCost(quantity, total_invested, average_cost) ==
    IF ~IsNull(total_invested) THEN Val(total_invested)
    ELSE IF ~IsNull(average_cost) THEN Mul(quantity, Val(average_cost))
    ELSE Q(0, 1)

\* the sell projection with the percentage left at 0.0
SellProjectionFlat(asset_id, quantity, total_invested, average_cost, price) ==
    LET original_cost == OriginalCost(quantity, total_invested, average_cost)
    IN  [asset_id |-> asset_id,
         hypothetical_sale_price |-> price,
         total_proceeds |-> Mul(quantity, price),
         original_cost |-> original_cost,
         profit_dollars |-> Sub(Mul(quantity, price), original_cost),
         profit_percent |-> Q(0, 1)]

\* sell_simulation_results for a numeric price >= 0
SellProjection(asset_id, quantity, total_invested, average_cost, price) ==
    LET original_cost == OriginalCost(quantity, total_invested, average_cost)
        total_proceeds == Mul(quantity, price)
        profit_dollars == Sub(total_proceeds, original_cost)
    IN  [asset_id |-> asset_id,
         hypothetical_sale_price |-> price,
         total_proceeds |-> total_proceeds,
         original_cost |-> original_cost,
         profit_dollars |-> profit_dollars,
         profit_percent |-> IF Less(Q(0, 1), original_cost)
                            THEN Times100(TrueDiv(profit_dollars, original_cost))
                            ELSE Q(0, 1)]

\* the same dict when the price is NaN: `nan < 0` is false, so the handler
\* goes on and every figure the price enters is NaN
SellProjectionNaN(asset_id, quantity, total_invested, average_cost) ==
    LET original_cost == OriginalCost(quantity, total_invested, average_cost)
    IN  [asset_id |-> asset_id,
         hypothetical_sale_price |-> NaN,
         total_proceeds |-> NaN,
         original_cost |-> original_cost,
         profit_dollars |-> NaN,
         profit_percent |-> IF Less(Q(0, 1), original_cost) THEN NaN ELSE Q(0, 1)]

\* POST /account/<id>/assets, action=simulate_sell: the flash and
\* sell_simulation_results. The asset is looked up by asset_id alone.
sell_simulation(account_id, asset_id_str, price_str, fault) ==
    LET id == ParseIntOrError(asset_id_str)
        price == ParseFloat(price_str)
        row == assets[id.v]
    IN  IF ~AccountJoined(account_id) THEN Outcome("error", "account not found", Null)
        ELSE IF asset_id_str = "" \/ price_str = "" THEN Outcome("error", "required", Null)
        ELSE IF id.kind = "err" \/ price.kind = "err" THEN Outcome("error", "invalid", Null)
        ELSE IF fault = "read" \/ id.v \notin DOMAIN assets
        THEN Outcome("error", "not found", Null)
        ELSE IF price.kind = "ok" /\ price.v < 0 THEN Outcome("warning", "negative", Null)
        ELSE IF price.kind = "nan"
        THEN Outcome("info", "calculated",
                     Some(SellProjectionNaN(id.v, Q(row.quantity, 1),
                                            Some(Q(row.total_invested, 1)),
                                            Some(Q(row.average_cost, 1)))))
        ELSE Outcome("info", "calculated",
                     Some(SellProjection(id.v, Q(row.quantity, 1),
                                         Some(Q(row.total_invested, 1)),
                                         Some(Q(row.average_cost, 1)), Q(price.v, 1))))

\* the request: nothing but the SELECTs above touches the store
simulate_sell(account_id, asset_id_str, price_str, fault) ==
    LET o == sell_simulation(account_id, asset_id_str, price_str, fault)
    IN  /\ last' = Resp("simulate_sell", o.flash, o.msg)
        /\ UNCHANGED <<users, platforms, accounts, assets, app_settings,
                       portfolio_history, sqlite_sequence, today>>

\* `(amount / invested) * 100 if invested > 0 else 0.0` on simulated figures
PercentIfInvested(amount, invested) ==
    IF Less(Q(0, 1), invested) THEN Times100(TrueDiv(amount, invested)) ELSE Q(0, 1)

\* the buy projection with the cost basis left as it is
BuyProjectionCostKept(asset_id, ticker, quantity, total_invested, price, shares_purchased) ==
    LET new_total_quantity == Add(quantity, shares_purchased)
        new_current_total_value == Mul(new_total_quantity, price)
        current_profit_loss_dollars == Sub(Mul(quantity, price), total_invested)
    IN  [asset_id |-> asset_id,
         ticker_symbol |-> ticker,
         shares_purchased |-> shares_purchased,
         cost_of_purchase |-> Mul(shares_purchased, price),
         new_total_quantity |-> new_total_quantity,
         new_total_invested |-> total_invested,
         new_average_cost |-> IF Less(Q(0, 1), new_total_quantity)
                              THEN TrueDiv(total_invested, new_total_quantity)
                              ELSE Q(0, 1),
         new_current_total_value |-> new_current_total_value,
         new_profit_loss_dollars |-> Sub(new_current_total_value, total_invested),
         new_profit_loss_percent |->
            PercentIfInvested(Sub(new_current_total_value, total_invested), total_invested),
         current_profit_loss_dollars |-> current_profit_loss_dollars,
         current_profit_loss_percent |->
            PercentIfInvested(current_profit_loss_dollars, total_invested)]

\* buy_simulation_results for shares_purchased > 0 bought at `price`
BuyProjection(asset_id, ticker, quantity, total_invested, price, shares_purchased) ==
    LET cost_of_purchase == Mul(shares_purchased, price)
        new_total_quantity == Add(quantity, shares_purchased)
        new_total_invested == Add(total_invested, cost_of_purchase)
        new_current_total_value == Mul(new_total_quantity, price)
        new_profit_loss_dollars == Sub(new_current_total_value, new_total_invested)
        current_profit_loss_dollars == Sub(Mul(quantity, price), total_invested)
    IN  [asset_id |-> asset_id,
         ticker_symbol |-> ticker,
         shares_purchased |-> shares_purchased,
         cost_of_purchase |-> cost_of_purchase,
         new_total_quantity |-> new_total_quantity,
         new_total_invested |-> new_total_invested,
         new_average_cost |-> IF Less(Q(0, 1), new_total_quantity)
                              THEN TrueDiv(new_total_invested, new_total_quantity)
                              ELSE Q(0, 1),
         new_current_total_value |-> new_current_total_value,
         new_profit_loss_dollars |-> new_profit_loss_dollars,
         new_profit_loss_percent |->
            PercentIfInvested(new_profit_loss_dollars, new_total_invested),
         current_profit_loss_dollars |-> current_profit_loss_dollars,
         current_profit_loss_percent |->
            PercentIfInvested(current_profit_loss_dollars, total_invested)]

\* the branch taken with the shares looked at first, the amount only without them
BuyWithPriceSharesFirst(id, row, amount_str, shares_str) ==
    LET price == Q(Val(row.current_price), 1)
        used == ParseFloat(IF shares_str = "" THEN amount_str ELSE shares_str)
        shares_purchased ==
            IF shares_str = "" THEN TrueDiv(Q(used.v, 1), price) ELSE Q(used.v, 1)
    IN  IF used.kind = "err" THEN Outcome("error", "invalid", Null)
        ELSE IF used.kind = "nan" THEN Outcome("none", "", Null)
        ELSE IF used.v <= 0
        THEN Outcome("warning",
                     IF shares_str = "" THEN "amount not positive" ELSE "shares not positive",
                     Null)
        ELSE IF shares_purchased = ZeroDivisionError THEN Outcome("error", "exception", Null)
        ELSE Outcome("info", "calculated",
                     Some(BuyProjection(id, row.ticker_symbol, Q(row.quantity, 1),
                                        Q(row.total_invested, 1), price, shares_purchased)))

\* the branch taken once the asset and its price are there: the amount if one
\* is given, else the shares
BuyWithPrice(id, row, amount_str, shares_str) ==
    LET price == Q(Val(row.current_price), 1)
        used == ParseFloat(IF amount_str # "" THEN amount_str ELSE shares_str)
        shares_purchased ==
            IF amount_str # "" THEN TrueDiv(Q(used.v, 1), price) ELSE Q(used.v, 1)
    IN  IF used.kind = "err" THEN Outcome("error", "invalid", Null)
        ELSE IF used.kind = "nan" THEN Outcome("none", "", Null)
        ELSE IF used.v <= 0
        THEN Outcome("warning",
                     IF amount_str # "" THEN "amount not positive" ELSE "shares not positive",
                     Null)
        ELSE IF shares_purchased = ZeroDivisionError THEN Outcome("error", "exception", Null)
        ELSE Outcome("info", "calculated",
                     Some(BuyProjection(id, row.ticker_symbol, Q(row.quantity, 1),
                                        Q(row.total_invested, 1), price, shares_purchased)))

\* the price check coming before the check that an input was given
buy_simulation_price_first(account_id, asset_id_str, amount_raw, shares_raw, fault) ==
    LET amount_str == Strip(amount_raw)
        shares_str == Strip(shares_raw)
        id == ParseIntOrError(asset_id_str)
    IN  IF ~AccountJoined(account_id) THEN Outcome("error", "account not found", Null)
        ELSE IF asset_id_str # "" /\ id.kind = "err" THEN Outcome("none", "ValueError", Null)
        ELSE IF asset_id_str = "" THEN Outcome("error", "asset id missing", Null)
        ELSE IF fault = "read" \/ id.v \notin DOMAIN assets
        THEN Outcome("error", "not found", Null)
        ELSE IF IsNull(assets[id.v].current_price)
        THEN Outcome("warning", "price unavailable", Null)
        ELSE IF amount_str = "" /\ shares_str = "" THEN Outcome("error", "required", Null)
        ELSE BuyWithPrice(id.v, assets[id.v], amount_str, shares_str)

\* POST /account/<id>/assets, action=simulate_buy_existing_asset: the flash and
\* buy_simulation_results. int(asset id) is taken outside the try, so a
\* non-numeric id ends the request with an unhandled ValueError.
buy_simulation(account_id, asset_id_str, amount_raw, shares_raw, fault) ==
    LET amount_str == Strip(amount_raw)
        shares_str == Strip(shares_raw)
        id == ParseIntOrError(asset_id_str)
    IN  IF ~AccountJoined(account_id) THEN Outcome("error", "account not found", Null)
        ELSE IF asset_id_str # "" /\ id.kind = "err" THEN Outcome("none", "ValueError", Null)
        ELSE IF asset_id_str = "" THEN Outcome("error", "asset id missing", Null)
        ELSE IF amount_str = "" /\ shares_str = "" THEN Outcome("error", "required", Null)
        ELSE IF fault = "read" \/ id.v \notin DOMAIN assets
        THEN Outcome("error", "not found", Null)
        ELSE IF IsNull(assets[id.v].current_price)
        THEN Outcome("warning", "price unavailable", Null)
        ELSE BuyWithPrice(id.v, assets[id.v], amount_str, shares_str)

\* a simulation that books the purchase it projects: the asset takes the new
\* total_invested
simulate_buy_booked(account_id, asset_id_str, amount_raw, shares_raw, fault) ==
    LET o == buy_simulation(account_id, asset_id_str, amount_raw, shares_raw, fault)
    IN  /\ last' = Resp("simulate_buy_existing_asset", o.flash, o.msg)
        /\ assets' = IF IsNull(o.result) THEN assets
                      ELSE [assets EXCEPT ![Val(o.result).asset_id].total_invested = @ + 1]
        /\ UNCHANGED <<users, platforms, accounts, app_settings,
                       portfolio_history, sqlite_sequence, today>>

\* the request: nothing but the SELECTs above touches the store
simulate_buy_existing_asset(account_id, asset_id_str, amount_raw, shares_raw, fault) ==
    LET o == buy_simulation(account_id, asset_id_str, amount_raw, shares_raw, fault)
    IN  /\ last' = Resp("simulate_buy_existing_asset", o.flash, o.msg)
        /\ UNCHANGED <<users, platforms, accounts, assets, app_settings,
                       portfolio_history, sqlite_sequence, today>>

\* ---------------------------------------------------- the stored settings
\* float(s) on a setting_value: the strings the handlers write with
\* str(float), the seeded '100000', and text that is no number
SettingFloat(s) ==
    CASE s = "100000" -> Q(100000, 1)
      [] s = "5.0" -> Q(5, 1)
      [] s = "1.4" -> Q(7, 5)
      [] s = "nan" -> NaN
      [] OTHER -> [raised |-> "ValueError"]
\* SELECT setting_value FROM app_settings WHERE setting_key = ?, one=True
SelectSetting(key, fault) ==
    IF fault = "read" \/ key \notin DOMAIN app_settings THEN Null ELSE Some(app_settings[key])
\* float(row['setting_value']) with neither the test of the row nor the try
SettingFloatUnchecked(row, default) ==
    IF IsNull(row) THEN [raised |-> "TypeError"] ELSE SettingFloat(Val(row))
\* `v = default; if row and row['setting_value']: try: v = float(...) except ValueError: pass`
SettingOrDefault(row, default) ==
    IF IsNull(row) \/ Val(row) = "" THEN default
    ELSE IF SettingFloat(Val(row)) = [raised |-> "ValueError"] THEN default
    ELSE SettingFloat(Val(row))
target_goal_value(fault) ==
    SettingOrDefault(SelectSetting("target_goal_value", fault), Q(100000, 1))
usd_to_cad_exchange_rate(fault) ==
    SettingOrDefault(SelectSetting("usd_to_cad_exchange_rate", fault), Q(135, 100))

\* ------------------------------------------------------ the daily snapshot
\* SELECT snapshot_date FROM portfolio_history WHERE snapshot_date = ?, one=True
SelectSnapshot(day, fault) ==
    IF fault = "read" THEN {}
    ELSE {r \in portfolio_history : r.snapshot_date = day}

\* portfolio_history declared without its PRIMARY KEY
InsertSnapshotNoKey(day, value, fault) ==
    IF fault = "write" THEN portfolio_history
    ELSE portfolio_history \cup {[snapshot_date |-> day, total_portfolio_value |-> value]}

\* the snapshot written with INSERT OR REPLACE
InsertOrReplaceSnapshot(day, value, fault) ==
    IF fault = "write" THEN portfolio_history
    ELSE {r \in portfolio_history : r.snapshot_date # day}
         \cup {[snapshot_date |-> day, total_portfolio_value |-> value]}

\* INSERT INTO portfolio_history: snapshot_date is the PRIMARY KEY
InsertSnapshot(day, value, fault) ==
    IF fault = "write" \/ \E r \in portfolio_history : r.snapshot_date = day
    THEN portfolio_history
    ELSE portfolio_history \cup {[snapshot_date |-> day, total_portfolio_value |-> value]}

\* one failing statement of GET /: "read" and "write" are the snapshot SELECT
\* and INSERT, the others name the SELECT that fails
IndexFaults == Faults \cup {"assets", "cash", "users", "platforms", "accounts"}

\* overall_portfolio_value as the run computes it: `if all_assets_raw:` and
\* `if global_cash_data and ...` keep 0.0 when their SELECT fails
overall_portfolio_value_computed(fault) ==
    (IF fault = "assets" THEN 0 ELSE global_current_value_of_assets)
    + (IF fault = "cash" THEN 0 ELSE global_total_cash)

\* `for user_row in users`, `for platform_row in user_platforms` and
\* `for account_row in accounts_on_platform` iterate the result of query_db
\* as it comes: None raises TypeError
index_raises(fault) ==
    \/ fault = "users"
    \/ fault = "platforms" /\ users # <<>>
    \/ fault = "accounts" /\ \E u \in DOMAIN users : user_platforms(u) # {}

\* GET /: the aggregation and its snapshot guard; the snapshot is committed
\* before the breakdown loops run
index(fault) ==
    /\ portfolio_history' =
          IF SelectSnapshot(today, fault) = {}
          THEN InsertSnapshot(today, overall_portfolio_value_computed(fault), fault)
          ELSE portfolio_history
    /\ last' = IF index_raises(fault) THEN Resp("index", "none", "TypeError")
               ELSE Resp("index", "none", "")
    /\ UNCHANGED <<users, platforms, accounts, assets, app_settings, sqlite_sequence, today>>

\* ------------------------------------------------------------- the goal
GoalStrs == {"", "abc", "-1", "5"}

\* str(float) of a parsed number
FloatStr(p) == IF p.kind = "nan" THEN "nan" ELSE ToString(p.v) \o ".0"

\* set_goal with the INSERT OR REPLACE moved in front of the sign test
set_goal_stored_before_test(raw, fault) ==
    LET p == ParseFloat(raw)
    IN  /\ IF raw = ""
           THEN /\ last' = Resp("set_goal", "warning", "empty")
                /\ UNCHANGED app_settings
           ELSE IF p.kind = "err"
           THEN /\ last' = Resp("set_goal", "error", "invalid")
                /\ UNCHANGED app_settings
           ELSE /\ app_settings' =
                     IF fault = "write" THEN app_settings
                     ELSE [app_settings EXCEPT !["target_goal_value"] = FloatStr(p)]
                /\ last' = IF Lt(p, 0) THEN Resp("set_goal", "warning", "negative")
                           ELSE Resp("set_goal", "success", "updated")
        /\ UNCHANGED <<users, platforms, accounts, assets, portfolio_history,
                       sqlite_sequence, today>>

\* POST /, action=set_goal; the result of the INSERT OR REPLACE is not looked at
set_goal(raw, fault) ==
    LET p == ParseFloat(raw)
    IN  /\ IF raw = ""
           THEN /\ last' = Resp("set_goal", "warning", "empty")
                /\ UNCHANGED app_settings
           ELSE IF p.kind = "err"
           THEN /\ last' = Resp("set_goal", "error", "invalid")
                /\ UNCHANGED app_settings
           ELSE IF Lt(p, 0)
           THEN /\ last' = Resp("set_goal", "warning", "negative")
                /\ UNCHANGED app_settings
           ELSE /\ app_settings' =
                     IF fault = "write" THEN app_settings
                     ELSE [app_settings EXCEPT !["target_goal_value"] = FloatStr(p)]
                /\ last' = Resp("set_goal", "success", "updated")
        /\ UNCHANGED <<users, platforms, accounts, assets, portfolio_history,
                       sqlite_sequence, today>>

\* midnight: date.today() moves on
NextDay ==
    /\ today < MaxDay
    /\ Event
    /\ today' = today + 1
    /\ UNCHANGED <<users, platforms, accounts, assets, app_settings, portfolio_history,
                   sqlite_sequence, last>>

\* ------------------------------------------- concurrent dashboard requests
\* query_db letting the sqlite3.IntegrityError of the INSERT through
query_db_insert_uncaught(day) ==
    IF \E r \in portfolio_history : r.snapshot_date = day
    THEN [raised |-> TRUE, returned |-> Null]
    ELSE [raised |-> FALSE, returned |-> Some(1)]

\* query_db on INSERT INTO portfolio_history: lastrowid, or None after the
\* sqlite3.IntegrityError of the PRIMARY KEY, which `except sqlite3.Error` catches
query_db_insert(day) ==
    IF \E r \in portfolio_history : r.snapshot_date = day
    THEN [raised |-> FALSE, returned |-> Null]
    ELSE [raised |-> FALSE, returned |-> Some(1)]

\* a step of request r: nothing but index_runs[r] and, in the INSERT,
\* portfolio_history changes
RunStep(r, run) ==
    /\ index_runs' = [index_runs EXCEPT ![r] = run]
    /\ UNCHANGED <<users, platforms, accounts, assets, app_settings, sqlite_sequence,
                   today, events, last>>

\* GET /, up to overall_portfolio_value: the assets and cash SELECTs
IndexCompute(r) ==
    /\ index_runs[r].pc = "start"
    /\ RunStep(r, [index_runs[r] EXCEPT !.pc = "computed",
                       !.overall_portfolio_value = overall_portfolio_value])
    /\ UNCHANGED portfolio_history

\* today_str = date.today().isoformat(); last_snapshot = query_db(SELECT ...)
IndexSelect(r) ==
    /\ index_runs[r].pc = "computed"
    /\ RunStep(r, [index_runs[r] EXCEPT !.pc = "selected",
                       !.today_str = today,
                       !.last_snapshot = (SelectSnapshot(today, "none") # {})])
    /\ UNCHANGED portfolio_history

\* `if not last_snapshot: query_db(INSERT ...)`, then the rest of the run,
\* which only reads
IndexInsert(r) ==
    LET run == index_runs[r]
        earlier == {o \in Runs : index_runs[o].insert_order > 0}
    IN  /\ run.pc = "selected"
        /\ IF run.last_snapshot
           THEN /\ RunStep(r, [run EXCEPT !.pc = "done"])
                /\ UNCHANGED portfolio_history
           ELSE /\ RunStep(r, [run EXCEPT !.pc = "done",
                                   !.insert_order = Cardinality(earlier) + 1,
                                   !.raised = query_db_insert(run.today_str).raised])
                /\ portfolio_history' =
                      InsertSnapshot(run.today_str, run.overall_portfolio_value, "none")

\* ------------------------------------------------------ the specification
\* ids a request can name: every id handed out so far, and one never handed out
Ids(tbl) == 1 .. sqlite_sequence[tbl] + 1

\* A fault can hit only a query the handler runs, and the gateway answers only
\* when it is called: the inputs below are drawn once the request gets that far.
FaultsIf(queries_run) == IF queries_run THEN Faults ELSE {"none"}
MarketDataIf(called) == IF called THEN MarketData ELSE {NoData}

\* add_asset gets past its validation, to its first query
add_asset_valid(account_id, f) ==
    /\ AccountJoined(account_id)
    /\ AssetFormComplete(f) /\ AssetFormNumeric(f) /\ AssetFormInBounds(f)

\* edit_asset gets past its validation
edit_asset_valid(asset_id, f) ==
    /\ AssetJoined(asset_id)
    /\ AssetFormComplete(f) /\ AssetFormNumeric(f) /\ AssetFormInBounds(f)

\* edit_account gets past its validation
edit_account_valid(account_id, f) ==
    /\ account_id \in DOMAIN accounts
    /\ AccountFormComplete(f)
    /\ ParseCash(f.cash_balance).kind # "err"

\* one HTTP request, served to completion, per handler
ManageUsers ==
    /\ Event
    /\ \E raw \in UserNames : \E fault \in FaultsIf(NameGiven(Strip(raw))) :
          manage_users(raw, fault)
EditUser ==
    /\ Event
    /\ \E id \in Ids("users"), raw \in UserNames :
          \E fault \in FaultsIf(id \in DOMAIN users /\ NameGiven(Strip(raw))) :
             edit_user(id, raw, fault)
ManagePlatforms ==
    /\ Event
    /\ \E raw \in PlatformNames : \E fault \in FaultsIf(NameGiven(Strip(raw))) :
          manage_platforms(raw, fault)
EditPlatform ==
    /\ Event
    /\ \E id \in Ids("platforms"), raw \in PlatformNames :
          \E fault \in FaultsIf(id \in DOMAIN platforms /\ NameGiven(Strip(raw))) :
             edit_platform(id, raw, fault)
DeletePlatform ==
    /\ Event
    /\ \E id \in Ids("platforms") : \E fault \in FaultsIf(id \in DOMAIN platforms) :
          delete_platform(id, fault)
ManageAccounts ==
    /\ Event
    /\ \E f \in AccountForms :
          \E fault \in FaultsIf(AccountFormComplete(f) /\ ParseCash(f.cash_balance).kind # "err") :
             manage_accounts(f, fault)
EditAccount ==
    /\ Event
    /\ \E id \in Ids("accounts"), f \in AccountForms :
          \E fault \in FaultsIf(edit_account_valid(id, f)) : edit_account(id, f, fault)
DeleteAccount ==
    /\ Event
    /\ \E id \in Ids("accounts") : \E fault \in FaultsIf(id \in DOMAIN accounts) :
          delete_account(id, fault)
AddAsset ==
    /\ Event
    /\ \E id \in Ids("accounts"), f \in AssetForms :
          \E fault \in FaultsIf(add_asset_valid(id, f)) :
             \E md \in MarketDataIf(/\ add_asset_valid(id, f)
                                    /\ SelectAssetByTicker(id, Upper(Strip(f.ticker_symbol)),
                                                           0, fault) = {}) :
                add_asset(id, f, md, fault)
EditAsset ==
    /\ Event
    /\ \E id \in Ids("assets"), f \in AssetForms :
          \E fault \in IF edit_asset_valid(id, f) THEN EditAssetFaults ELSE {"none"} :
             edit_asset(id, f, fault)
DeleteAsset ==
    /\ Event
    /\ \E id \in Ids("assets") : \E fault \in FaultsIf(id \in DOMAIN assets) :
          delete_asset(id, fault)
RefreshAssetData ==
    /\ Event
    /\ \E id \in Ids("assets") : \E md \in MarketDataIf(id \in DOMAIN assets) :
          \E fault \in FaultsIf(md.available) : refresh_asset_data(id, md, fault)
RefreshAllAssetsData ==
    /\ Event
    /\ \E mdOf \in [UniqueTickers -> MarketData] :
          \E failed \in SUBSET {t \in UniqueTickers : mdOf[t].available},
             rate \in IF UniqueTickers = {} THEN {""} ELSE ExchangeRates,
             stop \in Stops(mdOf) :
                refresh_all_assets_data(mdOf, failed, rate, stop)
Index ==
    /\ Event
    /\ \E fault \in IndexFaults : index(fault)
SetGoal ==
    /\ Event
    /\ \E raw \in GoalStrs : \E fault \in FaultsIf(raw # "" /\ ~Lt(ParseFloat(raw), 0)
                                                     /\ ParseFloat(raw).kind # "err") :
          set_goal(raw, fault)

\* the simulation forms. Every price and amount is tried on the stored
\* assets; an empty, a non-numeric and an unused asset id get a few.
NoAssetIds == {"", "abc", ToString(sqlite_sequence.assets + 1)}
AssetIdStrs == {ToString(a) : a \in DOMAIN assets}
SellPrices == {"", "abc", "nan", "-1", "0", "3"}
\* <<simulate_sell_asset_id, hypothetical_sale_price>>
SellForms ==
    (NoAssetIds \X {"3", "-1"}) \cup (AssetIdStrs \X SellPrices)
\* <<buy_investment_amount, buy_shares_to_buy>>
BuyInputs ==
    { <<"", "">>, <<" ", "">>, <<"3", "">>, <<"0", "">>, <<"abc", "">>, <<"nan", "">>,
      <<"", "2">>, <<"", "-1">>, <<"", "abc">>, <<"3", "-1">> }
\* <<simulate_buy_asset_id, <<buy_investment_amount, buy_shares_to_buy>>>>
BuyForms ==
    (NoAssetIds \X {<<"3", "">>, <<"", "">>, <<"0", "">>}) \cup (AssetIdStrs \X BuyInputs)
\* the forms posted to /account/<id>/assets: one is enough where the account
\* is not found
FormsFor(account_id, forms) ==
    IF AccountJoined(account_id) THEN forms ELSE {CHOOSE f \in forms : TRUE}
\* the simulation gets to its SELECT on assets
simulate_sell_valid(account_id, asset_id_str, price_str) ==
    sell_simulation(account_id, asset_id_str, price_str, "read").msg = "not found"
simulate_buy_valid(account_id, asset_id_str, amount_raw, shares_raw) ==
    buy_simulation(account_id, asset_id_str, amount_raw, shares_raw, "read").msg = "not found"

SimulateSell ==
    /\ Event
    /\ \E id \in Ids("accounts") : \E f \in FormsFor(id, SellForms) :
          \E fault \in IF simulate_sell_valid(id, f[1], f[2]) THEN {"none", "read"} ELSE {"none"} :
             simulate_sell(id, f[1], f[2], fault)
SimulateBuy ==
    /\ Event
    /\ \E id \in Ids("accounts") : \E f \in FormsFor(id, BuyForms) :
          \E fault \in IF simulate_buy_valid(id, f[1], f[2][1], f[2][2])
                        THEN {"none", "read"} ELSE {"none"} :
             simulate_buy_existing_asset(id, f[1], f[2][1], f[2][2], fault)

Next ==
    \/ SimulateSell \/ SimulateBuy
    \/ ManageUsers \/ EditUser
    \/ ManagePlatforms \/ EditPlatform \/ DeletePlatform
    \/ ManageAccounts \/ EditAccount \/ DeleteAccount
    \/ AddAsset \/ EditAsset \/ DeleteAsset
    \/ RefreshAssetData \/ RefreshAllAssetsData
    \/ Index \/ SetGoal
    \/ NextDay

\* Spec keeps no record of the responses, SpecT records the last one
Spec == Init /\ [][Next]_vars
SpecT == InitT /\ [][Next]_vars

\* two GET / requests served concurrently while accounts are added, edited
\* and deleted and the date changes
ConcurrentIndex ==
    \E r \in Runs : IndexCompute(r) \/ IndexSelect(r) \/ IndexInsert(r)
NextC ==
    \/ ConcurrentIndex
    \/ ManageAccounts \/ EditAccount \/ DeleteAccount
    \/ NextDay
SpecC == Init /\ [][NextC]_vars

\* ================================================================ claims

\* ---- C1: portfolio_history holds at most one snapshot per calendar date, and
\* an aggregation run on a date that already has its snapshot adds no row and
\* leaves the recorded value as it is, whatever changed in between.
OneSnapshotPerDate ==
    \A r1, r2 \in portfolio_history : r1.snapshot_date = r2.snapshot_date => r1 = r2
\* (stated as: a step from a state holding today's snapshot to another
\* portfolio_history is no step of index)
SecondRunKeepsSnapshot ==
    (/\ \E r \in portfolio_history : r.snapshot_date = today
     /\ portfolio_history' # portfolio_history) => ~Index
C1_OneSnapshotPerDate == []OneSnapshotPerDate /\ [][SecondRunKeepsSnapshot]_vars
\* the aggregation has just run on a date whose snapshot holds another value
\* than the one this run computed
C1_Witness ==
    /\ last.op = "index"
    /\ \E r \in portfolio_history :
          r.snapshot_date = today /\ r.total_portfolio_value # overall_portfolio_value

\* ---- C2: right after a successful delete_account no asset references the
\* deleted account, and right after a successful delete_platform no account
\* references the deleted platform and no asset references a deleted account.
DeleteCascades ==
    /\ \A acc \in DOMAIN accounts \ DOMAIN accounts' :
          \A a \in DOMAIN assets' : assets'[a].account_id # acc
    /\ \A p \in DOMAIN platforms \ DOMAIN platforms' :
          \A acc \in DOMAIN accounts' : accounts'[acc].platform_id # p
C2_DeleteCascades == [][DeleteCascades]_vars

\* ---- C3: in every reachable state every account references an existing user
\* and an existing platform, and every asset references an existing account.
C3_ReferencesExist ==
    /\ \A acc \in DOMAIN accounts :
          /\ accounts[acc].user_id \in DOMAIN users
          /\ accounts[acc].platform_id \in DOMAIN platforms
    /\ \A a \in DOMAIN assets : assets[a].account_id \in DOMAIN accounts

\* ---- C4: in every reachable state no two asset rows share (account_id,
\* ticker_symbol), and add_asset with a ticker the account already holds, or
\* edit_asset moving an asset to a ticker another asset of its account holds,
\* is not a step that changes the assets table.
UniqueAccountTicker ==
    \A a1, a2 \in DOMAIN assets :
        (/\ assets[a1].account_id = assets[a2].account_id
         /\ assets[a1].ticker_symbol = assets[a2].ticker_symbol) => a1 = a2
\* the account holds `ticker` in an asset other than `except`
Held(account_id, ticker, except) ==
    \E o \in DOMAIN assets :
        /\ o # except
        /\ assets[o].account_id = account_id
        /\ assets[o].ticker_symbol = ticker
\* (a step of add_asset or edit_asset records its handler in last', so only
\* those steps that change the table are held against the handlers)
DuplicateTickerRejected ==
    (assets' # assets /\ last'.op \in {"add_asset", "edit_asset"}) =>
       /\ \A id \in Ids("accounts"), f \in AssetForms :
             Held(id, Upper(Strip(f.ticker_symbol)), 0) =>
                \A md \in MarketData, fault \in Faults : ~add_asset(id, f, md, fault)
       /\ \A id \in DOMAIN assets, f \in AssetForms :
             Held(assets[id].account_id, Upper(Strip(f.ticker_symbol)), id) =>
                \A fault \in EditAssetFaults : ~edit_asset(id, f, fault)
C4_UniqueAccountTicker == []UniqueAccountTicker /\ [][DuplicateTickerRejected]_vars
\* edit_asset has just refused to move an asset onto the ticker of another
\* asset of the same account
C4_Witness ==
    /\ last.op = "edit_asset" /\ last.msg = "exists"
    /\ \E a1, a2 \in DOMAIN assets :
          a1 # a2 /\ assets[a1].account_id = assets[a2].account_id

\* ---- C5: in every reachable state user names are pairwise distinct and
\* non-empty, platform names are pairwise distinct and non-empty, account names
\* are pairwise distinct; an add or a rename submitting an empty name or the
\* name of another row is not a step that changes its table.
NamesUniqueNonEmpty ==
    /\ \A u1, u2 \in DOMAIN users : users[u1] = users[u2] => u1 = u2
    /\ \A u \in DOMAIN users : Strip(users[u]) # ""
    /\ \A p1, p2 \in DOMAIN platforms : platforms[p1] = platforms[p2] => p1 = p2
    /\ \A p \in DOMAIN platforms : Strip(platforms[p]) # ""
    /\ \A a1, a2 \in DOMAIN accounts :
          accounts[a1].account_name = accounts[a2].account_name => a1 = a2
\* `name` is empty or the name of a row of `tbl` other than `except`
BadName(tbl, name, except) ==
    name = "" \/ \E o \in DOMAIN tbl : o # except /\ tbl[o] = name
AccountNameTaken(name, except) ==
    \E o \in DOMAIN accounts : o # except /\ accounts[o].account_name = name
BadNameRejected ==
    /\ (users' # users /\ last'.op \in {"manage_users", "edit_user"}) =>
          \A raw \in UserNames, fault \in Faults :
             /\ BadName(users, Strip(raw), 0) => ~manage_users(raw, fault)
             /\ \A id \in DOMAIN users :
                   BadName(users, Strip(raw), id) => ~edit_user(id, raw, fault)
    /\ (platforms' # platforms /\ last'.op \in {"manage_platforms", "edit_platform"}) =>
          \A raw \in PlatformNames, fault \in Faults :
             /\ BadName(platforms, Strip(raw), 0) => ~manage_platforms(raw, fault)
             /\ \A id \in DOMAIN platforms :
                   BadName(platforms, Strip(raw), id) => ~edit_platform(id, raw, fault)
    /\ (accounts' # accounts /\ last'.op \in {"manage_accounts", "edit_account"}) =>
          \A f \in AccountForms, fault \in Faults :
             /\ AccountNameTaken(Strip(f.account_name), 0) => ~manage_accounts(f, fault)
             /\ \A id \in DOMAIN accounts :
                   AccountNameTaken(Strip(f.account_name), id) => ~edit_account(id, f, fault)
C5_NamesUniqueNonEmpty == []NamesUniqueNonEmpty /\ [][BadNameRejected]_vars
\* a rename of one user to the name of the other has just been refused
C5_Witness ==
    /\ last.op = "edit_user" /\ last.msg = "exists"
    /\ Cardinality(DOMAIN users) = 2

\* ---- C6: in every reachable state every stored asset has quantity > 0,
\* average_cost >= 0 and total_invested >= 0; add_asset or edit_asset with a
\* numeric submission outside these bounds is not a step that changes the
\* assets table.
StoredAssetsWithinBounds ==
    \A a \in DOMAIN assets :
        /\ assets[a].quantity > 0
        /\ assets[a].average_cost >= 0
        /\ assets[a].total_invested >= 0
\* a complete, numeric submission that is not within the bounds (NaN is within none)
OutOfBounds(f) ==
    LET q == ParseFloat(Strip(f.quantity))
        c == ParseFloat(Strip(f.average_cost))
        i == ParseFloat(Strip(f.total_invested))
    IN  /\ AssetFormComplete(f) /\ AssetFormNumeric(f)
        /\ ~ /\ q.kind = "ok" /\ q.v > 0
             /\ c.kind = "ok" /\ c.v >= 0
             /\ i.kind = "ok" /\ i.v >= 0
OutOfBoundsForms == {f \in AssetForms : OutOfBounds(f)}
OutOfBoundsRejected ==
    /\ (assets' # assets /\ last'.op = "add_asset") =>
          \A f \in OutOfBoundsForms, id \in Ids("accounts") :
             \A fault \in FaultsIf(add_asset_valid(id, f)) :
                \A md \in MarketDataIf(add_asset_valid(id, f)) : ~add_asset(id, f, md, fault)
    /\ (assets' # assets /\ last'.op = "edit_asset") =>
          \A f \in OutOfBoundsForms, id \in DOMAIN assets :
             \A fault \in IF edit_asset_valid(id, f) THEN EditAssetFaults ELSE {"none"} :
                ~edit_asset(id, f, fault)
C6_StoredAssetsWithinBounds == []StoredAssetsWithinBounds /\ [][OutOfBoundsRejected]_vars
\* edit_asset has just refused an out-of-bounds submission for a stored asset
C6_Witness ==
    /\ last.op = "edit_asset" /\ last.msg = "bounds"
    /\ assets # <<>>

\* ---- C7: in every reachable state every stored account has cash_balance >= 0.
C7_CashNonNegative ==
    \A acc \in DOMAIN accounts :
        ~IsNull(accounts[acc].cash_balance) => Val(accounts[acc].cash_balance) >= 0

\* ---- C8 (as stated): the price fields of an existing asset change only in a
\* step of refresh_asset_data or refresh_all_assets_data; aggregation and every
\* edit leave them unchanged.
PriceFields(asset) ==
    <<asset.current_price, asset.price_yesterday,
      asset.fifty_two_week_high, asset.fifty_two_week_low>>
\* the assets, present before and after the step, whose price fields differ
Repriced ==
    {a \in DOMAIN assets \cap DOMAIN assets' :
        PriceFields(assets'[a]) # PriceFields(assets[a])}
PricesChangeOnlyInRefresh ==
    Repriced # {} => (RefreshAssetData \/ RefreshAllAssetsData)
C8_PricesChangeOnlyInRefresh == [][PricesChangeOnlyInRefresh]_vars

\* ---- C8 (amended): the price fields of an existing asset change only in a
\* step of refresh_asset_data or refresh_all_assets_data, or in a step of
\* edit_asset that changes the asset's ticker, which leaves all four NULL.
PricesChangeInRefreshOrTickerEdit ==
    Repriced # {} =>
       \/ RefreshAssetData \/ RefreshAllAssetsData
       \/ /\ EditAsset
          /\ \A a \in Repriced :
                /\ assets'[a].ticker_symbol # assets[a].ticker_symbol
                /\ PriceFields(assets'[a]) = <<Null, Null, Null, Null>>
C8_PricesChangeInRefreshOrTickerEdit == [][PricesChangeInRefreshOrTickerEdit]_vars
\* edit_asset has just updated an asset that carries the name a full quote gave
\* it (so it had prices) and now has no price field left
C8_Witness ==
    /\ last.op = "edit_asset" /\ last.msg = "updated"
    /\ \E a \in DOMAIN assets :
          /\ assets[a].name = "Corp"
          /\ assets[a].ticker_symbol = "MSFT"
          /\ PriceFields(assets[a]) = <<Null, Null, Null, Null>>

\* ---- C9: at every level of the dashboard view-model the asset totals are the
\* sums of the children: an account's over its stored assets, a platform
\* summary's over its accounts, a user summary's over its platforms, the global
\* totals over the user summaries.
StoredAssetsOf(acc) == {a \in DOMAIN assets : assets[a].account_id = acc}
StoredValue(a) ==
    IF IsNull(assets[a].current_price) THEN 0
    ELSE assets[a].quantity * Val(assets[a].current_price)
C9_TotalsAreSums ==
    /\ \A u \in DOMAIN users : \A p \in user_platforms(u) :
          /\ \A acc \in accounts_on_platform(u, p) :
                /\ account_summary_data(acc).total_invested =
                      SumOf([a \in StoredAssetsOf(acc) |-> assets[a].total_invested])
                /\ account_summary_data(acc).current_value_of_assets =
                      SumOf([a \in StoredAssetsOf(acc) |-> StoredValue(a)])
          /\ platform_summary_data(u, p).total_invested =
                SumOf([acc \in accounts_on_platform(u, p) |->
                          account_summary_data(acc).total_invested])
          /\ platform_summary_data(u, p).current_value_of_assets =
                SumOf([acc \in accounts_on_platform(u, p) |->
                          account_summary_data(acc).current_value_of_assets])
    /\ \A u \in DOMAIN users :
          /\ breakdown_data[u].total_invested =
                SumOf([p \in user_platforms(u) |-> platform_summary_data(u, p).total_invested])
          /\ breakdown_data[u].current_value_of_assets =
                SumOf([p \in user_platforms(u) |->
                          platform_summary_data(u, p).current_value_of_assets])
    /\ global_total_invested_assets =
          SumOf([u \in DOMAIN users |-> breakdown_data[u].total_invested])
    /\ global_current_value_of_assets =
          SumOf([u \in DOMAIN users |-> breakdown_data[u].current_value_of_assets])
\* two priced assets are on the dashboard
C9_Witness ==
    /\ \E a1, a2 \in AllAssetsRaw :
          a1 # a2 /\ StoredValue(a1) > 0 /\ StoredValue(a2) > 0
    /\ global_current_value_of_assets > 0

\* ---- C10: the dashboard's global total_cash equals the sum of total_cash over
\* the user summaries, which equals the sum of cash_balance over the accounts
\* shown in the breakdown; and overall_portfolio_value equals the sum of
\* total_value over the per-account performance list.
C10_CashAgrees ==
    /\ global_total_cash =
          SumOf([u \in DOMAIN users |-> breakdown_data[u].total_cash])
    /\ SumOf([u \in DOMAIN users |-> breakdown_data[u].total_cash]) =
          SumOf([acc \in DOMAIN all_accounts_performance_data |->
                    account_summary_data(acc).cash_balance])
    /\ overall_portfolio_value =
          SumOf([acc \in DOMAIN all_accounts_performance_data |->
                    all_accounts_performance_data[acc].total_value])

\* ---- C11: at the asset, account, platform, user and global level
\* profit_loss_percent is 0 when the level's total_invested is <= 0 and is
\* profit_loss_amount / total_invested * 100 otherwise; the computation never
\* divides by zero.
\* amount * 100 / invested as an exact fraction, 0 when nothing is invested
PercentOf(amount, invested) ==
    IF invested <= 0 THEN Q(0, 1) ELSE Q(amount * 100, invested)
C11_ProfitLossPercentGuarded ==
    /\ \A a \in AllAssetsRaw :
          asset_profit_loss_percent(a) =
             PercentOf(StoredValue(a) - assets[a].total_invested, assets[a].total_invested)
    /\ \A u \in DOMAIN users : \A p \in user_platforms(u) :
          /\ \A acc \in accounts_on_platform(u, p) :
                account_profit_loss_percent(acc) =
                   PercentOf(account_summary_data(acc).profit_loss_amount,
                             account_summary_data(acc).total_invested)
          /\ platform_profit_loss_percent(u, p) =
                PercentOf(platform_summary_data(u, p).profit_loss_amount,
                          platform_summary_data(u, p).total_invested)
    /\ \A u \in DOMAIN users :
          user_profit_loss_percent(u) =
             PercentOf(breakdown_data[u].profit_loss_amount, breakdown_data[u].total_invested)
    /\ global_profit_loss_percent =
          PercentOf(global_profit_loss_amount, global_total_invested_assets)
    /\ global_profit_loss_percent # ZeroDivisionError
\* the dashboard shows an asset with nothing invested and a value, beside one
\* with a cost basis and a gain or a loss
C11_Witness ==
    /\ \E a \in AllAssetsRaw : assets[a].total_invested = 0 /\ StoredValue(a) > 0
    /\ \E a \in AllAssetsRaw :
          assets[a].total_invested > 0 /\ asset_profit_loss_percent(a) # Q(0, 1)

\* ---- C12: day_change_percent is a number only when current_price and
\* price_yesterday are both stored and price_yesterday > 0, and
\* percent_to_52_week_high only when current_price and fifty_two_week_high
\* are both stored and the high is > 0; in every other case the metric is
\* absent.
DayChangeDefined(a) ==
    /\ ~IsNull(assets[a].current_price)
    /\ ~IsNull(assets[a].price_yesterday)
    /\ Val(assets[a].price_yesterday) > 0
HighDefined(a) ==
    /\ ~IsNull(assets[a].current_price)
    /\ ~IsNull(assets[a].fifty_two_week_high)
    /\ Val(assets[a].fifty_two_week_high) > 0
C12_MetricsAbsentWhenUndefined ==
    \A a \in AllAssetsRaw :
       /\ IsNull(day_change_percent(a)) <=> ~DayChangeDefined(a)
       /\ IsNull(percent_to_52_week_high(a)) <=> ~HighDefined(a)

\* ---- C13: the ranked asset list holds exactly the assets with
\* total_invested > 0, in non-increasing order of profit_loss_percent, assets
\* of equal percent in their input order; the best performer is its first
\* element and the worst its last (the same asset when there is one, both
\* absent when there is none); the account ranking is built the same way from
\* the accounts with total_invested > 0.
PosIn(seq, x) == CHOOSE i \in 1 .. Len(seq) : seq[i] = x
\* `ranked` lists each element of `members` once, by non-increasing pct, ties
\* in the order of `input`
RankedFrom(ranked, members, input, pct) ==
    /\ Len(ranked) = Cardinality(members)
    /\ {ranked[i] : i \in 1 .. Len(ranked)} = members
    /\ \A i, j \in 1 .. Len(ranked) :
          i < j =>
             /\ ~Less(pct[ranked[i]], pct[ranked[j]])
             /\ pct[ranked[i]] = pct[ranked[j]]
                   => PosIn(input, ranked[i]) < PosIn(input, ranked[j])
C13_RankingOrder ==
    /\ RankedFrom(all_assets_ranked,
                  {a \in AllAssetsRaw : assets[a].total_invested > 0},
                  all_assets_detailed,
                  [a \in AllAssetsRaw |-> asset_profit_loss_percent(a)])
    /\ RankedFrom(all_accounts_ranked_by_performance,
                  {c \in DOMAIN all_accounts_performance_data :
                      account_summary_data(c).total_invested > 0},
                  accounts_performance_order,
                  [c \in DOMAIN all_accounts_performance_data |->
                      account_profit_loss_percent(c)])
    /\ IF all_assets_ranked = <<>>
       THEN IsNull(best_performing_asset) /\ IsNull(worst_performing_asset)
       ELSE /\ best_performing_asset = Some(Head(all_assets_ranked))
            /\ worst_performing_asset = Some(all_assets_ranked[Len(all_assets_ranked)])
            /\ Len(all_assets_ranked) = 1 => best_performing_asset = worst_performing_asset
\* two assets of equal percent are ranked, in two ranked accounts of equal
\* percent
C13_Witness ==
    /\ Len(all_assets_ranked) = 2
    /\ asset_profit_loss_percent(all_assets_ranked[1])
          = asset_profit_loss_percent(all_assets_ranked[2])
    /\ Len(all_accounts_ranked_by_performance) = 2

\* ---- C14: each of the three allocation datasets (by account type, by user,
\* by individual account) has exactly one entry for each group whose summed
\* value (asset value plus cash) is > 0 and none for a group whose value is
\* <= 0, and is empty, header row included, when no group is positive.
\* the accounts whose user and platform exist, and what each is worth
ShownAccounts ==
    {c \in DOMAIN accounts :
        accounts[c].user_id \in DOMAIN users /\ accounts[c].platform_id \in DOMAIN platforms}
WorthOf(cs) ==
    SumOf([a \in {x \in DOMAIN assets : assets[x].account_id \in cs} |-> StoredValue(a)])
       + SumOf([c \in cs |-> OrZero(accounts[c].cash_balance)])
\* `data` is empty when no group of `worth` is positive, and otherwise the
\* header followed by one [label, worth] row per positive group
Allocates(data, header, worth) ==
    LET positive == {g \in DOMAIN worth : worth[g] > 0}
    IN  IF positive = {} THEN data = <<>>
        ELSE /\ Len(data) = 1 + Cardinality(positive)
             /\ data[1] = header
             /\ {data[i] : i \in 2 .. Len(data)} = {<<g, worth[g]>> : g \in positive}
C14_AllocationDatasets ==
    /\ Allocates(account_type_allocation_data_for_chart, <<"Account Type", "Total Value">>,
                 [t \in {accounts[c].account_type : c \in ShownAccounts} |->
                     WorthOf({c \in ShownAccounts : accounts[c].account_type = t})])
    /\ Allocates(user_allocation_data_for_chart, <<"User", "Total Portfolio Value">>,
                 [n \in {users[u] : u \in DOMAIN users} |->
                     WorthOf({c \in ShownAccounts : users[accounts[c].user_id] = n})])
    /\ Allocates(individual_account_allocation_data_for_chart, <<"Account", "Total Value">>,
                 [d \in {display_name(c) : c \in ShownAccounts} |->
                     WorthOf({c \in ShownAccounts : display_name(c) = d})])
\* one account is worth something and another is overdrawn, so that the
\* account dataset has a single entry while their user's total is not
\* positive and the user dataset is empty
C14_Witness ==
    /\ Len(individual_account_allocation_data_for_chart) = 2
    /\ \E c \in ShownAccounts : all_accounts_performance_data[c].total_value < 0
    /\ user_allocation_data_for_chart = <<>>
    /\ account_type_allocation_data_for_chart = <<>>

\* ---- C15: for an existing asset and a sale price >= 0 the sell simulation
\* returns total_proceeds = quantity * price, profit_dollars = total_proceeds
\* - original_cost and profit_percent = profit_dollars / original_cost * 100
\* (0 when original_cost <= 0), where original_cost is total_invested, else
\* quantity * average_cost when total_invested is absent, else 0; quantity 10,
\* total_invested 1000 and price 150 give 1500, 500 and 50.
\* the accounts a simulation can be posted to
JoinedAccounts == {c \in Ids("accounts") : AccountJoined(c)}
\* the sale prices that are numbers >= 0
SalePricesFrom0 == {p \in SellPrices : ParseFloat(p).kind = "ok" /\ ParseFloat(p).v >= 0}
SaleOf10At150 == SellProjection(1, Q(10, 1), Some(Q(1000, 1)), Some(Q(100, 1)), Q(150, 1))
C15_SellFigures ==
    /\ \A c \in JoinedAccounts, a \in DOMAIN assets, p \in SalePricesFrom0 :
          LET r == sell_simulation(c, ToString(a), p, "none").result
              proceeds == assets[a].quantity * ParseFloat(p).v
              cost == assets[a].total_invested
          IN  /\ ~IsNull(r)
              /\ Val(r).total_proceeds = Q(proceeds, 1)
              /\ Val(r).original_cost = Q(cost, 1)
              /\ Val(r).profit_dollars = Q(proceeds - cost, 1)
              /\ Val(r).profit_percent = PercentOf(proceeds - cost, cost)
    /\ SaleOf10At150.total_proceeds = Q(1500, 1)
    /\ SaleOf10At150.profit_dollars = Q(500, 1)
    /\ SaleOf10At150.profit_percent = Q(50, 1)
    /\ OriginalCost(Q(3, 1), Null, Some(Q(2, 1))) = Q(6, 1)
    /\ OriginalCost(Q(3, 1), Null, Null) = Q(0, 1)
\* a sale has just been simulated, and the store holds an asset whose sale at
\* 3 shows a gain on a cost basis and one whose cost basis is 0
C15_Witness ==
    /\ last.op = "simulate_sell" /\ last.msg = "calculated"
    /\ \E c \in JoinedAccounts, a \in DOMAIN assets :
          /\ assets[a].total_invested > 0
          /\ Less(Q(0, 1), Val(sell_simulation(c, ToString(a), "3", "none").result).profit_percent)
    /\ \E a \in DOMAIN assets : assets[a].total_invested = 0

\* ---- C16: the sell simulation produces no result and reports an error
\* whenever the asset does not exist, the price is negative, or either input
\* is missing or not a number; it produces a result only for an existing
\* asset and a price >= 0.
\* the sell simulation of form f posted to account c
SellOutcome(c, f) == sell_simulation(c, f[1], f[2], "none")
SellRefused(o) == IsNull(o.result) /\ o.flash \in {"error", "warning"}
C16_SellRejections ==
    \A c \in JoinedAccounts, f \in SellForms :
       LET id == ParseIntOrError(f[1])
           price == ParseFloat(f[2])
           exists == id.kind = "ok" /\ id.v \in DOMAIN assets
       IN  /\ (f[1] = "" \/ f[2] = "" \/ id.kind = "err" \/ price.kind = "err")
                 => SellRefused(SellOutcome(c, f))
           /\ (id.kind = "ok" /\ ~exists) => SellRefused(SellOutcome(c, f))
           /\ (price.kind = "ok" /\ price.v < 0) => SellRefused(SellOutcome(c, f))
           /\ ~IsNull(SellOutcome(c, f).result)
                 => exists /\ price.kind = "ok" /\ price.v >= 0

\* ---- C17: for an existing asset with a known current_price and one valid
\* positive input the buy simulation returns shares_purchased =
\* investment_amount / current_price (or shares_to_buy), cost_of_purchase =
\* shares_purchased * current_price, new_total_quantity = quantity +
\* shares_purchased, new_total_invested = total_invested + cost_of_purchase
\* and new_average_cost = new_total_invested / new_total_quantity; quantity 5,
\* total_invested 500, price 120 and amount 600 give 5 shares, quantity 10,
\* invested 1100 and average cost 110.
PricedAssets == {a \in DOMAIN assets : ~IsNull(assets[a].current_price)}
\* the inputs that carry one number > 0
OnePositiveInput ==
    {in \in BuyInputs :
        \/ in[2] = "" /\ ParseFloat(Strip(in[1])).kind = "ok" /\ ParseFloat(Strip(in[1])).v > 0
        \/ Strip(in[1]) = "" /\ ParseFloat(in[2]).kind = "ok" /\ ParseFloat(in[2]).v > 0}
BuyOf600At120 ==
    BuyProjection(1, "X", Q(5, 1), Q(500, 1), Q(120, 1), TrueDiv(Q(600, 1), Q(120, 1)))
BuyOf4SharesAt50 == BuyProjection(1, "X", Q(0, 1), Q(0, 1), Q(50, 1), Q(4, 1))
C17_BuyFigures ==
    /\ \A c \in JoinedAccounts, a \in PricedAssets, in \in OnePositiveInput :
          LET r == buy_simulation(c, ToString(a), in[1], in[2], "none").result
              price == Val(assets[a].current_price)
              qty == assets[a].quantity
              invested == assets[a].total_invested
              \* shares as the fraction sn / sd, and what they cost
              sn == IF in[2] = "" THEN ParseFloat(in[1]).v ELSE ParseFloat(in[2]).v
              sd == IF in[2] = "" THEN price ELSE 1
              cost == IF in[2] = "" THEN ParseFloat(in[1]).v ELSE ParseFloat(in[2]).v * price
          IN  /\ ~IsNull(r)
              /\ Val(r).shares_purchased = Q(sn, sd)
              /\ Val(r).cost_of_purchase = Q(cost, 1)
              /\ Val(r).new_total_quantity = Q(qty * sd + sn, sd)
              /\ Val(r).new_total_invested = Q(invested + cost, 1)
              /\ Val(r).new_average_cost = Q((invested + cost) * sd, qty * sd + sn)
    /\ BuyOf600At120.shares_purchased = Q(5, 1)
    /\ BuyOf600At120.new_total_quantity = Q(10, 1)
    /\ BuyOf600At120.new_total_invested = Q(1100, 1)
    /\ BuyOf600At120.new_average_cost = Q(110, 1)
    /\ BuyOf4SharesAt50.cost_of_purchase = Q(200, 1)
    /\ BuyOf4SharesAt50.new_total_quantity = Q(4, 1)
    /\ BuyOf4SharesAt50.new_average_cost = Q(50, 1)
\* a purchase has just been simulated, and the store holds a priced asset of
\* which an amount of 3 buys a fraction of a share
C17_Witness ==
    /\ last.op = "simulate_buy_existing_asset" /\ last.msg = "calculated"
    /\ \E c \in JoinedAccounts, a \in PricedAssets :
          Val(buy_simulation(c, ToString(a), "3", "", "none").result).shares_purchased.d > 1

\* ---- C18: whenever the stored current_price of the asset is null, the buy
\* simulation fails with the price-unavailable condition, whatever the other
\* inputs are: valid, non-positive, non-numeric, or both amount and shares
\* absent.
UnpricedAssets == {a \in DOMAIN assets : IsNull(assets[a].current_price)}
C18_PriceUnavailableWhateverInputs ==
    \A c \in JoinedAccounts, a \in UnpricedAssets, in \in BuyInputs :
       LET o == buy_simulation(c, ToString(a), in[1], in[2], "none")
       IN  IsNull(o.result) /\ o.msg = "price unavailable"
\* ---- C18 as the code has it: with a null current_price the buy simulation
\* fails with the price-unavailable condition whenever an amount or a number
\* of shares is given, be it valid, non-positive or non-numeric; when both are
\* absent it fails with the input-required error instead.
C18_PriceUnavailableWhenInputGiven ==
    \A c \in JoinedAccounts, a \in UnpricedAssets, in \in BuyInputs :
       LET o == buy_simulation(c, ToString(a), in[1], in[2], "none")
       IN  /\ IsNull(o.result)
           /\ o.msg = IF Strip(in[1]) = "" /\ Strip(in[2]) = "" THEN "required"
                      ELSE "price unavailable"
\* a purchase of an asset without a price has just been refused as such, and
\* one with neither amount nor shares as lacking its input
C18_Witness ==
    /\ last.op = "simulate_buy_existing_asset" /\ last.msg = "price unavailable"
    /\ \E c \in JoinedAccounts, a \in UnpricedAssets :
          /\ buy_simulation(c, ToString(a), "abc", "", "none").msg = "price unavailable"
          /\ buy_simulation(c, ToString(a), "0", "", "none").msg = "price unavailable"
          /\ buy_simulation(c, ToString(a), "", "", "none").msg = "required"

\* ---- C19: the buy simulation produces no result and reports a validation
\* error when investment_amount and shares_to_buy are both absent, when the
\* numeric input it uses is <= 0, or when the asset does not exist; it
\* produces a result only when the asset exists, its price is known and the
\* input it uses is > 0.
\* the buy simulation of form f posted to account c
BuyOutcome(c, f) == buy_simulation(c, f[1], f[2][1], f[2][2], "none")
BuyRefused(o) == IsNull(o.result) /\ o.flash \in {"error", "warning"}
\* the input the simulation uses: the amount if there is one, else the shares
InputUsed(in) == ParseFloat(IF Strip(in[1]) # "" THEN Strip(in[1]) ELSE Strip(in[2]))
C19_BuyRejections ==
    \A c \in JoinedAccounts, f \in BuyForms :
       LET id == ParseIntOrError(f[1])
           exists == id.kind = "ok" /\ id.v \in DOMAIN assets
           used == InputUsed(f[2])
       IN  /\ (Strip(f[2][1]) = "" /\ Strip(f[2][2]) = "") => BuyRefused(BuyOutcome(c, f))
           /\ (id.kind = "ok" /\ used.kind = "ok" /\ used.v <= 0) => BuyRefused(BuyOutcome(c, f))
           /\ (id.kind = "ok" /\ ~exists) => BuyRefused(BuyOutcome(c, f))
           /\ ~IsNull(BuyOutcome(c, f).result)
                 => /\ exists
                    /\ ~IsNull(assets[id.v].current_price)
                    /\ used.kind = "ok" /\ used.v > 0

\* ---- C20: the sell and buy simulations never change the store: whatever
\* the input and whether the simulation succeeds or fails, users, platforms,
\* accounts, assets, app_settings and portfolio_history are the same before
\* and after it.
SimulationOps == {"simulate_sell", "simulate_buy_existing_asset"}
C20_SimulationsLeaveStore ==
    [][(last'.op \in SimulationOps /\ (SimulateSell \/ SimulateBuy))
          => UNCHANGED <<users, platforms, accounts, assets, app_settings,
                         portfolio_history, sqlite_sequence>>]_vars
\* a buy simulation has just given a result, on a store with a priced asset
\* and a snapshot
C20_Witness ==
    /\ last.op = "simulate_buy_existing_asset" /\ last.msg = "calculated"
    /\ PricedAssets # {}
    /\ portfolio_history # {}

\* ---- C21: the dashboard reads target_goal_value and
\* usd_to_cad_exchange_rate from app_settings and uses 100000 and 1.35
\* whenever the row is absent, empty or not parseable as a number; an
\* unparseable value never aborts the aggregation.
\* the number a stored setting stands for, Null where there is none
SettingNumber(key) ==
    IF key \notin DOMAIN app_settings THEN Null
    ELSE IF app_settings[key] \in {"100000", "5.0", "1.4", "nan"}
    THEN Some(SettingFloat(app_settings[key]))
    ELSE Null
Raised(v) == "raised" \in DOMAIN v
C21_SettingDefaults ==
    /\ \A fault \in {"none", "read"} :
          /\ ~Raised(target_goal_value(fault)) /\ ~Raised(usd_to_cad_exchange_rate(fault))
          /\ (fault = "read" \/ IsNull(SettingNumber("target_goal_value")))
                => target_goal_value(fault) = Q(100000, 1)
          /\ (fault = "read" \/ IsNull(SettingNumber("usd_to_cad_exchange_rate")))
                => usd_to_cad_exchange_rate(fault) = Q(135, 100)
    /\ ~IsNull(SettingNumber("target_goal_value"))
          => target_goal_value("none") = Val(SettingNumber("target_goal_value"))
    /\ ~IsNull(SettingNumber("usd_to_cad_exchange_rate"))
          => usd_to_cad_exchange_rate("none") = Val(SettingNumber("usd_to_cad_exchange_rate"))
    /\ \A text \in {"", "abc", "1,35"} :
          /\ SettingOrDefault(Some(text), Q(100000, 1)) = Q(100000, 1)
          /\ SettingOrDefault(Some(text), Q(135, 100)) = Q(135, 100)
\* a goal of 5 has been set while no exchange rate was ever stored
C21_Witness ==
    /\ app_settings["target_goal_value"] = "5.0"
    /\ "usd_to_cad_exchange_rate" \notin DOMAIN app_settings
    /\ target_goal_value("none") = Q(5, 1)
    /\ usd_to_cad_exchange_rate("none") = Q(135, 100)

\* ---- C22: in refresh_all_assets_data every distinct ticker of the store is
\* attempted exactly once whatever happens to the others: a gateway or store
\* failure for one ticker leaves the updates of the others applied, every
\* ticker ends either updated or listed as failed, never both and never
\* neither, and the list of failures is reported once, after the whole sweep.
\* the step is the refresh-all of these inputs, it ends with its report, and
\* each ticker is either in the failure list with its assets untouched or has
\* the quote's prices on all its assets
SweepAccountsForAll(mdOf, failed, rate, stop) ==
    refresh_all_assets_data(mdOf, failed, rate, stop) =>
       /\ last'.flash \in {"success", "error"}
       /\ \A a \in DOMAIN assets :
             LET t == assets[a].ticker_symbol
             IN  IF t \in failed_tickers(mdOf, failed)
                 THEN assets'[a] = assets[a]
                 ELSE PriceFields(assets'[a]) =
                         <<mdOf[t].current_price, mdOf[t].price_yesterday,
                           mdOf[t].fifty_two_week_high, mdOf[t].fifty_two_week_low>>
SweepComplete ==
    (last'.op = "refresh_all_assets_data" /\ UniqueTickers # {}) =>
       \A mdOf \in [UniqueTickers -> MarketData] :
          \A failed \in SUBSET {t \in UniqueTickers : mdOf[t].available},
             rate \in ExchangeRates, stop \in Stops(mdOf) :
                SweepAccountsForAll(mdOf, failed, rate, stop)
C22_SweepComplete == [][SweepComplete]_vars

\* ---- C23: when a refresh, of one asset or of all, gets no usable data from
\* the gateway, be it that the whole call fails or that a price field comes
\* back missing or non-numeric, the stored price fields concerned keep the
\* values they had before the refresh.
PriceFieldNames ==
    {"current_price", "price_yesterday", "fifty_two_week_high", "fifty_two_week_low"}
\* the gateway gave nothing usable for field f (a non-numeric value has been
\* set to None by fetch_market_data)
NotUsable(md, f) == ~md.available \/ IsNull(md[f])
\* asset a keeps every price field for which md has nothing usable
KeepsUnfetched(a, md) ==
    \A f \in PriceFieldNames : NotUsable(md, f) => assets'[a][f] = assets[a][f]
UnfetchedFieldsKept ==
    /\ last'.op = "refresh_asset_data" =>
          \A id \in DOMAIN assets, md \in MarketData, fault \in Faults :
             refresh_asset_data(id, md, fault) => KeepsUnfetched(id, md)
    /\ (last'.op = "refresh_all_assets_data" /\ UniqueTickers # {}) =>
          \A mdOf \in [UniqueTickers -> MarketData] :
             \A failed \in SUBSET {t \in UniqueTickers : mdOf[t].available},
                rate \in ExchangeRates, stop \in Stops(mdOf) :
                   refresh_all_assets_data(mdOf, failed, rate, stop) =>
                      \A a \in DOMAIN assets : KeepsUnfetched(a, mdOf[assets[a].ticker_symbol])
C23_UnfetchedFieldsKept == [][UnfetchedFieldsKept]_vars

\* ---- C24: an add, an edit or a set-goal request that is turned down by
\* validation (missing field, non-numeric value, quantity or cost out of
\* bounds, negative goal, duplicate name or ticker) or because its target does
\* not exist leaves every table exactly as it was.
AddEditGoalOps ==
    {"manage_users", "edit_user", "manage_platforms", "edit_platform",
     "manage_accounts", "edit_account", "add_asset", "edit_asset", "set_goal"}
RejectionMessages ==
    {"empty", "required", "invalid", "bounds", "negative", "exists", "not found"}
RejectedLeavesStore ==
    (last'.op \in AddEditGoalOps /\ last'.msg \in RejectionMessages)
       => UNCHANGED <<users, platforms, accounts, assets, app_settings,
                      portfolio_history, sqlite_sequence>>
C24_RejectedLeavesStore == [][RejectedLeavesStore]_vars
C24_Witness ==
    /\ last.op = "set_goal" /\ last.msg = "negative"
    /\ app_settings["target_goal_value"] = "5.0"

\* ---- C25: an operation whose store statement fails does not raise: the
\* failed read or write yields the not-completed signal and the operation,
\* the dashboard aggregation with any one of its reads failing included,
\* still completes.
FailedStatementRaises ==
    \/ last.msg = "TypeError"
    \/ \E fault \in IndexFaults : index_raises(fault)
C25_FailedStatementNeverRaises == ~FailedStatementRaises

\* ---- C26: a snapshot row, once written, is never modified or removed:
\* whatever operation runs next (aggregation on the same or a later date,
\* CRUD, deletes, refreshes, simulations, goal changes), every (date, value)
\* pair of portfolio_history is still there with the same value.
SnapshotsKept == \A r \in portfolio_history : r \in portfolio_history'
C26_SnapshotsKept == [][SnapshotsKept]_vars
\* a snapshot of an earlier date that no longer matches the portfolio is
\* still there next to today's
C26_Witness ==
    \E r, s \in portfolio_history :
        /\ r.snapshot_date < today
        /\ r.total_portfolio_value # overall_portfolio_value
        /\ s.snapshot_date = today

\* ---- C28: an asset whose ticker edit_asset has changed never carries the
\* price fields of its previous ticker in a committed store state: the new
\* ticker and the cleared prices take effect together, also when the second
\* write fails.
Retickered ==
    {a \in DOMAIN assets \cap DOMAIN assets' :
        assets'[a].ticker_symbol # assets[a].ticker_symbol}
TickerChangeClearsPrices ==
    \A a \in Retickered : PriceFields(assets'[a]) = <<Null, Null, Null, Null>>
C28_TickerChangeClearsPrices == [][TickerChangeClearsPrices]_vars

\* ---- C27: when two dashboard requests for the same date both read "no
\* snapshot for today" before either inserts, exactly one snapshot row of that
\* date exists once both are through, its value is the one computed by the
\* request whose INSERT ran first, and neither request raises.
\* (both finished, on the same date, both having read no snapshot)
BothReadNoSnapshot ==
    /\ \A r \in Runs : index_runs[r].pc = "done" /\ ~index_runs[r].last_snapshot
    /\ index_runs[1].today_str = index_runs[2].today_str
C27_FirstInsertWins ==
    BothReadNoSnapshot =>
       /\ \E first \in Runs :
             /\ index_runs[first].insert_order = 1
             /\ {s \in portfolio_history : s.snapshot_date = index_runs[1].today_str}
                   = {[snapshot_date |-> index_runs[first].today_str,
                       total_portfolio_value |-> index_runs[first].overall_portfolio_value]}
       /\ \A r \in Runs : ~index_runs[r].raised
\* ... and the two requests computed different values
C27_Witness ==
    /\ BothReadNoSnapshot
    /\ index_runs[1].overall_portfolio_value # index_runs[2].overall_portfolio_value

\* ---- C29: for every asset row shown both in an account's asset view and on
\* the dashboard, the derived metrics of the two are identical: current_value,
\* profit_loss_dollars, profit_loss_percent, day_change_percent and
\* percent_to_52_week_high.
\* (the rows of the asset views of the accounts the view can be opened for)
ViewedAssets ==
    UNION {assets_db_rows(c) : c \in {x \in DOMAIN accounts : AccountJoined(x)}}
SameMetrics(a) ==
    /\ asset_item(a).current_value = AssetDetail(a).current_value
    /\ asset_item(a).profit_loss_dollars = AssetDetail(a).profit_loss_dollars
    /\ asset_item(a).profit_loss_percent = asset_profit_loss_percent(a)
    /\ asset_item(a).day_change_percent = day_change_percent(a)
    /\ asset_item(a).percent_to_52_week_high = percent_to_52_week_high(a)
C29_ViewsAgree ==
    /\ ViewedAssets = AllAssetsRaw
    /\ \A a \in ViewedAssets : SameMetrics(a)
\* two assets are shown, one with every metric computed from its prices and
\* one with no price at all
C29_Witness ==
    \E a, b \in ViewedAssets :
        /\ asset_item(a).percent_to_52_week_high # Null
        /\ asset_item(a).day_change_percent # Some(Q(0, 1))
        /\ asset_item(a).profit_loss_percent # Q(0, 1)
        /\ IsNull(assets[b].current_price)

\* ---- C30: when both investment_amount and shares_to_buy are supplied to the
\* buy simulation only investment_amount is used: the outcome is the one of the
\* same request without shares_to_buy, and an investment_amount <= 0 fails with
\* no result even when shares_to_buy is a valid positive number.
AmountsGiven == {"3", "0", "-1", "abc", "nan"}
SharesGiven == {"2", "-1", "abc", "nan"}
C30_AmountTakesPrecedence ==
    \A c \in Ids("accounts"), id \in NoAssetIds \cup AssetIdStrs, fault \in {"none", "read"} :
       \A amount \in AmountsGiven, shares \in SharesGiven :
          /\ buy_simulation(c, id, amount, shares, fault)
                = buy_simulation(c, id, amount, "", fault)
          /\ (ParseFloat(amount).kind = "ok" /\ ParseFloat(amount).v <= 0)
                => IsNull(buy_simulation(c, id, amount, shares, fault).result)
\* a store where 2 shares alone are projected, an amount of 3 with them gives
\* another projection, and an amount of 0 with them gives none
C30_Witness ==
    /\ \E c \in JoinedAccounts, a \in PricedAssets :
          /\ ~IsNull(buy_simulation(c, ToString(a), "", "2", "none").result)
          /\ ~IsNull(buy_simulation(c, ToString(a), "3", "2", "none").result)
          /\ buy_simulation(c, ToString(a), "3", "2", "none")
                # buy_simulation(c, ToString(a), "", "2", "none")
          /\ buy_simulation(c, ToString(a), "0", "2", "none").msg = "amount not positive"

====
